---------------------------- MODULE Spec2Model ----------------------------
(***************************************************************************)
(* State-machine model of the Corsair Commander Core XT hwmon driver       *)
(* (src/corsair-ccxt.c): the command encoder, the transport exchange       *)
(* send_usb with its asynchronous reply capture ccxt_raw_event, the        *)
(* endpoint transactions read_data / write_data, the response decoders     *)
(* and the attach / detach lifecycle.                                      *)
(*                                                                         *)
(* Threads: thread Core runs ccxt_probe and ccxt_remove; threads           *)
(* 1..NumCallers are concurrent callers of the hwmon callbacks once the    *)
(* hwmon device is registered.  ccxt_raw_event runs in its own context and *)
(* may fire with any report at any time while the HID device is started    *)
(* (the device does not use report ids, and hidraw users share it).        *)
(*                                                                         *)
(* Buffers are kept as the window of bytes the driver ever reads or        *)
(* writes: bytes 0..BufView-1 of buffer / data_buffer and 0..CmdView-1 of  *)
(* cmd_buffer.  Received sizes are kept as the real byte counts.           *)
(***************************************************************************)
EXTENDS Integers, Sequences, FiniteSets, TLC

(* ------------------------------ bounds --------------------------------- *)
NumCallers == 2
BufView == 29
CmdView == 16

(* ------------------------- program constants --------------------------- *)
NUM_FANS == 6
NUM_TEMP_SENSORS == 2
OUT_BUFFER_SIZE == 385
IN_BUFFER_SIZE == 384
CMD_HEADER_SIZE == 2
WRITE_DATA_HEADER_SIZE == 4
FAN_CNT_INDEX == 5
FAN_DATA_OFFSET == 6
TEMP_CNT_INDEX == 5
TEMP_DATA_OFFSET == 6
FAN_STATE_OK == 7

EIO == 5
EINVAL == 22
ENODATA == 61
EPROTO == 71
EOPNOTSUPP == 95
ETIMEDOUT == 110

cmd_get_firmware == <<2, 19>>
cmd_hardware_mode == <<1, 3, 0, 1>>
cmd_software_mode == <<1, 3, 0, 2>>
cmd_open_endpoint == <<13, 1>>
cmd_close_endpoint == <<5, 1, 1>>
cmd_write == <<6, 1>>
cmd_read == <<8, 1>>

endpoint_fan_state == 23
endpoint_fan_pwm == 24
endpoint_get_fans == 26
endpoint_get_temperatures == 33

data_type_set_speed == <<7, 0>>

(* ------------------------------ threads -------------------------------- *)
Core == 0
Callers == 1..NumCallers
Threads == {Core} \cup Callers
Channels == 0..(NUM_FANS - 1)

(* ------------------------------ helpers -------------------------------- *)
min(a, b) == IF a < b THEN a ELSE b

Abs(a) == IF a < 0 THEN -a ELSE a

\* C integer division: truncation toward zero
CDiv(a, b) ==
    IF (a >= 0) = (b > 0) THEN Abs(a) \div Abs(b) ELSE -(Abs(a) \div Abs(b))

\* variant: plain C division, no rounding to the closest integer
DIV_TRUNCATE(x, divisor) == CDiv(x, divisor)

DIV_ROUND_CLOSEST(x, divisor) ==
    IF (x > 0) = (divisor > 0)
    THEN CDiv(x + CDiv(divisor, 2), divisor)
    ELSE CDiv(x - CDiv(divisor, 2), divisor)

\* variant: only the lower limit is applied
clamp_val_low(v, lo, hi) == IF v < lo THEN lo ELSE v

clamp_val(v, lo, hi) == IF v < lo THEN lo ELSE IF v > hi THEN hi ELSE v

\* (s16) of a 16-bit unsigned value
s16(u) == IF u >= 32768 THEN u - 65536 ELSE u

\* memset(dst, 0, n) on a window of bytes
memset(dst, n) == [i \in DOMAIN dst |-> IF i < n THEN 0 ELSE dst[i]]

\* memcpy(dst + off, src, n): src is a sequence (1-based) or a window (0-based)
memcpy_seq(dst, off, src) ==
    [i \in DOMAIN dst |->
        IF i >= off /\ i < off + Len(src) THEN src[i - off + 1] ELSE dst[i]]

memcpy(dst, src, n) == [i \in DOMAIN dst |-> IF i < n THEN src[i] ELSE dst[i]]

(* A report delivered by the transport: its size and its leading bytes.    *)
(* lead lists the first bytes; every further byte of the report is zero.   *)
Report(size, lead) ==
    [size |-> size,
     data |-> [i \in 0..(BufView - 1) |-> IF i < Len(lead) THEN lead[i + 1] ELSE 0]]

\* history value: no frame of a locking function in progress is on the wire
NoFrame == [t |-> 0, fn |-> "none", xstep |-> 0, frame |-> <<>>, sent |-> 0]

\* history value: no set_target call is pending on a channel (a pending
\* call with value v is recorded as {v})
NoRequest == {}

ZeroBuf == [i \in 0..(BufView - 1) |-> 0]
GarbageBuf == [i \in 0..(BufView - 1) |-> 165]

(* ------------------------------- state --------------------------------- *)
VARIABLES
    stage,                  \* lifecycle: "probe", "online", "remove", "removed", "failed"
    mutex,                  \* ccxt->mutex: the set of holders ({} when free)
    completion,             \* ccxt->wait_input_report: done or not
    cmd_buffer,             \* ccxt->cmd_buffer (bytes 0..CmdView-1)
    buffer,                 \* ccxt->buffer (bytes 0..BufView-1)
    buffer_recv_size,       \* ccxt->buffer_recv_size
    data_buffer,            \* ccxt->data_buffer (bytes 0..BufView-1)
    data_buffer_recv_size,  \* ccxt->data_buffer_recv_size
    target,                 \* ccxt->target[NUM_FANS]
    fan_cnct,               \* ccxt->fan_cnct bitmap, as the set of set bits
    temp_cnct,              \* ccxt->temp_cnct bitmap, as the set of set bits
    fan_label,              \* ccxt->fan_label[NUM_FANS]
    firmware_ver,           \* ccxt->firmware_ver
    top,                    \* per thread: the outermost driver function running
    fn,                     \* per thread: the locking function running
    pc,                     \* per thread: position
    xstep,                  \* per thread: exchange number within fn (1..4)
    endpoint,               \* per thread: endpoint argument of read_data / write_data
    channel,                \* per thread: channel argument
    val,                    \* per thread: val argument / *val result
    ret,                    \* per thread: local ret
    produced,               \* history: per thread, a value was stored through *val
    xres,                   \* history: per thread, results of the exchanges of the running fn
    wire,                   \* history: the last frame the running locking function sent,
                            \*   and what hid_hw_output_report returned for it
    capEarly,               \* history: the report captured for the exchange in progress
                            \* arrived before the frame was sent
    dataOwner,              \* history: thread whose transaction last wrote data_buffer
    snap,                   \* history: data_buffer when the mutex was last taken
    requested               \* history: per channel, {v} for the last set_target call
                            \* no successful set_pwm has followed, or NoRequest

devVars == <<cmd_buffer, buffer, buffer_recv_size, data_buffer,
             data_buffer_recv_size, completion>>
decVars == <<target, fan_cnct, temp_cnct, fan_label, firmware_ver>>
thrVars == <<top, fn, pc, xstep, endpoint, channel, val, ret>>
histVars == <<produced, xres, wire, capEarly, dataOwner, snap, requested>>
vars == <<stage, mutex, devVars, decVars, thrVars, histVars>>

(* State after ccxt_probe has allocated and initialised the device and     *)
(* started HID I/O: the device structure is zeroed (devm_kzalloc), the     *)
(* three buffers are not (devm_kmalloc), the mutex is free and the         *)
(* completion is not done.                                                 *)
Init ==
    /\ stage = "probe"
    /\ mutex = {}
    /\ completion = FALSE
    /\ cmd_buffer \in {[i \in 0..(CmdView - 1) |-> 0], [i \in 0..(CmdView - 1) |-> 165]}
    /\ buffer \in {ZeroBuf, GarbageBuf}
    /\ buffer_recv_size = 0
    /\ data_buffer \in {ZeroBuf, GarbageBuf}
    /\ data_buffer_recv_size = 0
    /\ target = [c \in Channels |-> 0]
    /\ fan_cnct = {}
    /\ temp_cnct = {}
    /\ fan_label = [c \in Channels |-> ""]
    /\ firmware_ver = [major |-> 0, minor |-> 0, patch |-> 0]
    /\ top = [t \in Threads |-> "none"]
    /\ fn = [t \in Threads |-> "none"]
    /\ pc = [t \in Threads |-> "idle"]
    /\ xstep = [t \in Threads |-> 0]
    /\ endpoint = [t \in Threads |-> 0]
    /\ channel = [t \in Threads |-> 0]
    /\ val = [t \in Threads |-> 0]
    /\ ret = [t \in Threads |-> 0]
    /\ produced = [t \in Threads |-> FALSE]
    /\ xres = [t \in Threads |-> <<>>]
    /\ wire = NoFrame
    /\ capEarly = FALSE
    /\ dataOwner = Core
    /\ snap = data_buffer
    /\ requested = [c \in Channels |-> NoRequest]


(* --------------------------- command encoder --------------------------- *)
\* variant: the buffer is not cleared before the command is written
prepare_cmd_nomemset(buf, command) ==
    LET hdr == [buf EXCEPT ![0] = 0, ![1] = 8]
    IN  [cmd_buffer |-> memcpy_seq(hdr, CMD_HEADER_SIZE, command),
         ret |-> CMD_HEADER_SIZE + Len(command)]

\* prepare_cmd: the new cmd_buffer and the returned size
prepare_cmd(buf, command) ==
    LET zeroed == memset(buf, OUT_BUFFER_SIZE)
        hdr == [zeroed EXCEPT ![0] = 0, ![1] = 8]
    IN  [cmd_buffer |-> memcpy_seq(hdr, CMD_HEADER_SIZE, command),
         ret |-> CMD_HEADER_SIZE + Len(command)]

prepare_endpoint_cmd(buf, command, ep) ==
    LET p == prepare_cmd(buf, command)
    IN  [cmd_buffer |-> [p.cmd_buffer EXCEPT ![p.ret] = ep],
         ret |-> p.ret + 1]

(* -------------------------- transport exchange ------------------------- *)
\* variant: the case label 0x12 is missing
ccxt_get_errno_no12(buf) ==
    CASE buf[0] = 0 -> 0
      [] buf[0] = 1 -> -EOPNOTSUPP
      [] buf[0] = 16 -> -EINVAL
      [] buf[0] = 17 -> -ENODATA
      [] OTHER -> -EIO

\* converts response error in buffer to errno
ccxt_get_errno(buf) ==
    CASE buf[0] = 0 -> 0
      [] buf[0] = 1 -> -EOPNOTSUPP
      [] buf[0] = 16 -> -EINVAL
      [] buf[0] = 17 -> -ENODATA
      [] buf[0] = 18 -> -ENODATA
      [] OTHER -> -EIO

\* send_usb returns r to the function that called it
send_usb_return(t, r) ==
    /\ capEarly' = FALSE
    /\ ret' = [ret EXCEPT ![t] = r]
    /\ xres' = [xres EXCEPT ![t] = Append(@, r)]
    /\ pc' = [pc EXCEPT ![t] = "check"]

\* variant: the completion is not reset before the frame is sent
send_usb_reinit_skip(t) ==
    /\ pc[t] = "reinit"
    /\ capEarly' = FALSE
    /\ pc' = [pc EXCEPT ![t] = "send"]
    /\ UNCHANGED <<stage, mutex, devVars, decVars, top, fn, xstep, endpoint, channel,
                   val, ret, produced, xres, wire, dataOwner, snap, requested>>

\* spin_lock_bh; reinit_completion; spin_unlock_bh
send_usb_reinit(t) ==
    /\ pc[t] = "reinit"
    /\ completion' = FALSE
    /\ capEarly' = FALSE
    /\ pc' = [pc EXCEPT ![t] = "send"]
    /\ UNCHANGED <<stage, mutex, cmd_buffer, buffer, buffer_recv_size, data_buffer,
                   data_buffer_recv_size, decVars, top, fn, xstep, endpoint, channel,
                   val, ret, produced, xres, wire, dataOwner, snap, requested>>

\* variant: the result of hid_hw_output_report is not tested
send_usb_send_ignore(t, e) ==
    /\ pc[t] = "send"
    /\ wire' = [t |-> t, fn |-> fn[t], xstep |-> xstep[t], frame |-> cmd_buffer,
                sent |-> e]
    /\ pc' = [pc EXCEPT ![t] = "wait"]
    /\ UNCHANGED <<ret, xres, capEarly>>
    /\ UNCHANGED <<stage, mutex, devVars, decVars, top, fn, xstep, endpoint, channel,
                   val, produced, dataOwner, snap, requested>>

\* ret = hid_hw_output_report(...); if (ret < 0) return ret;
\* e is what hid_hw_output_report returns
send_usb_send(t, e) ==
    /\ pc[t] = "send"
    /\ wire' = [t |-> t, fn |-> fn[t], xstep |-> xstep[t], frame |-> cmd_buffer,
                sent |-> e]
    /\ IF e < 0
       THEN send_usb_return(t, e)
       ELSE /\ pc' = [pc EXCEPT ![t] = "wait"]
            /\ UNCHANGED <<ret, xres>>
    /\ IF e < 0 THEN TRUE ELSE UNCHANGED capEarly
    /\ UNCHANGED <<stage, mutex, devVars, decVars, top, fn, xstep, endpoint, channel,
                   val, produced, dataOwner, snap, requested>>

\* variant: the result of wait_for_completion_timeout is not tested
send_usb_wait_unchecked(t) ==
    /\ pc[t] = "wait"
    /\ pc' = [pc EXCEPT ![t] = "inspect"]
    /\ UNCHANGED <<stage, mutex, devVars, decVars, top, fn, xstep, endpoint, channel,
                   val, ret, produced, xres, wire, capEarly, dataOwner, snap, requested>>

\* t = wait_for_completion_timeout(...); if (!t) return -ETIMEDOUT;
send_usb_wait(t) ==
    /\ pc[t] = "wait"
    /\ IF completion
       THEN /\ pc' = [pc EXCEPT ![t] = "inspect"]
            /\ UNCHANGED <<ret, xres, capEarly>>
       ELSE send_usb_return(t, -ETIMEDOUT)
    /\ UNCHANGED <<stage, mutex, devVars, decVars, top, fn, xstep, endpoint, channel,
                   val, produced, wire, dataOwner, snap, requested>>

\* variant: only replies shorter than the frame size are rejected
send_usb_result_short ==
    IF buffer_recv_size < IN_BUFFER_SIZE THEN -EPROTO ELSE ccxt_get_errno(buffer)

\* the value send_usb returns once the wait was completed
send_usb_result ==
    IF buffer_recv_size # IN_BUFFER_SIZE THEN -EPROTO ELSE ccxt_get_errno(buffer)

send_usb_inspect(t) ==
    /\ pc[t] = "inspect"
    /\ send_usb_return(t, send_usb_result)
    /\ UNCHANGED <<stage, mutex, devVars, decVars, top, fn, xstep, endpoint, channel,
                   val, produced, wire, dataOwner, snap, requested>>

\* variant: every report is captured, completion_done is not tested
ccxt_raw_event_always(r) ==
    /\ stage \in {"probe", "online", "remove"}
    /\ buffer' = memcpy(buffer, r.data, min(IN_BUFFER_SIZE, r.size))
    /\ buffer_recv_size' = r.size
    /\ completion' = TRUE
    /\ capEarly' = (\E t \in Threads : pc[t] = "send")
    /\ UNCHANGED <<stage, mutex, cmd_buffer, data_buffer, data_buffer_recv_size,
                   decVars, thrVars, produced, xres, wire, dataOwner, snap, requested>>

\* the HID core delivers report r
ccxt_raw_event(r) ==
    /\ stage \in {"probe", "online", "remove"}
    /\ IF ~completion
       THEN /\ buffer' = memcpy(buffer, r.data, min(IN_BUFFER_SIZE, r.size))
            /\ buffer_recv_size' = r.size
            /\ completion' = TRUE
            /\ capEarly' = (\E t \in Threads : pc[t] = "send")
       ELSE UNCHANGED <<buffer, buffer_recv_size, completion, capEarly>>
    /\ UNCHANGED <<stage, mutex, cmd_buffer, data_buffer, data_buffer_recv_size,
                   decVars, thrVars, produced, xres, wire, dataOwner, snap, requested>>

(* ------------------------------ the mutex ------------------------------ *)
\* variant: the lock is taken without waiting for the holder to release it
mutex_lock_nowait(t) ==
    mutex' = mutex \cup {t}

mutex_lock(t) ==
    /\ mutex = {}
    /\ mutex' = {t}

mutex_unlock(t) ==
    mutex' = mutex \ {t}


\* mutex_lock(&ccxt->mutex) as the first statement of a locking function
txn_lock(t) ==
    /\ pc[t] = "lock"
    /\ fn[t] # "set_target"
    /\ mutex_lock(t)
    /\ snap' = data_buffer
    /\ xstep' = [xstep EXCEPT ![t] = 1]
    /\ pc' = [pc EXCEPT ![t] = "encode"]
    /\ UNCHANGED <<stage, devVars, decVars, top, fn, endpoint, channel, val, ret,
                   produced, xres, wire, capEarly, dataOwner, requested>>

\* variant: the result of the trailing close is dropped, 0 is returned
txn_unlock_swallow(t) ==
    /\ pc[t] = "unlock"
    /\ mutex_unlock(t)
    /\ snap' = data_buffer
    /\ wire' = NoFrame
    /\ ret' = [ret EXCEPT ![t] = IF xstep[t] = 4 THEN 0 ELSE @]
    /\ pc' = [pc EXCEPT ![t] = IF fn[t] = top[t] THEN "return" ELSE "decode"]
    /\ UNCHANGED <<stage, devVars, decVars, top, fn, xstep, endpoint, channel, val,
                   produced, xres, capEarly, dataOwner, requested>>

\* variant: a failed exchange returns its error without releasing the mutex
txn_unlock_leak(t) ==
    /\ pc[t] = "unlock"
    /\ IF ret[t] = 0 THEN mutex_unlock(t) ELSE UNCHANGED mutex
    /\ snap' = data_buffer
    /\ wire' = NoFrame
    /\ pc' = [pc EXCEPT ![t] = IF fn[t] = top[t] THEN "return" ELSE "decode"]
    /\ UNCHANGED <<stage, devVars, decVars, top, fn, xstep, endpoint, channel, val,
                   ret, produced, xres, capEarly, dataOwner, requested>>

\* out_unlock: mutex_unlock(&ccxt->mutex); return ret;
txn_unlock(t) ==
    /\ pc[t] = "unlock"
    /\ mutex_unlock(t)
    /\ snap' = data_buffer
    /\ wire' = NoFrame
    /\ pc' = [pc EXCEPT ![t] = IF fn[t] = top[t] THEN "return" ELSE "decode"]
    /\ UNCHANGED <<stage, devVars, decVars, top, fn, xstep, endpoint, channel, val,
                   ret, produced, xres, capEarly, dataOwner, requested>>

(* ----------------- single-exchange locking functions ------------------- *)
mode_cmd(f) ==
    CASE f = "set_hardware_mode" -> cmd_hardware_mode
      [] f = "set_software_mode" -> cmd_software_mode
      [] f = "get_fw_version" -> cmd_get_firmware

\* prepare_cmd_safe(ccxt, cmd_...) of set_hardware_mode, set_software_mode, get_fw_version
single_encode(t) ==
    /\ pc[t] = "encode"
    /\ fn[t] \in {"set_hardware_mode", "set_software_mode", "get_fw_version"}
    /\ cmd_buffer' = prepare_cmd(cmd_buffer, mode_cmd(fn[t])).cmd_buffer
    /\ pc' = [pc EXCEPT ![t] = "reinit"]
    /\ UNCHANGED <<stage, mutex, buffer, buffer_recv_size, data_buffer,
                   data_buffer_recv_size, completion, decVars, top, fn, xstep,
                   endpoint, channel, val, ret, histVars>>

\* ret = send_usb(ccxt); mutex_unlock follows
set_mode_check(t) ==
    /\ pc[t] = "check"
    /\ fn[t] \in {"set_hardware_mode", "set_software_mode"}
    /\ pc' = [pc EXCEPT ![t] = "unlock"]
    /\ UNCHANGED <<stage, mutex, devVars, decVars, top, fn, xstep, endpoint, channel,
                   val, ret, histVars>>

\* the firmware version decoded from the reply
fw_decode(buf) ==
    [major |-> buf[3], minor |-> buf[4], patch |-> (buf[5] + buf[6] * 256) % 65536]

get_fw_version_check(t) ==
    /\ pc[t] = "check"
    /\ fn[t] = "get_fw_version"
    /\ firmware_ver' = IF ret[t] # 0 THEN firmware_ver ELSE fw_decode(buffer)
    /\ pc' = [pc EXCEPT ![t] = "unlock"]
    /\ UNCHANGED <<stage, mutex, devVars, target, fan_cnct, temp_cnct, fan_label,
                   top, fn, xstep, endpoint, channel, val, ret, histVars>>

(* ------------------------ endpoint transactions ------------------------ *)
\* the command template of exchange number k of read_data
read_data_cmd(k) ==
    CASE k = 1 -> cmd_close_endpoint
      [] k = 2 -> cmd_open_endpoint
      [] k = 3 -> cmd_read
      [] k = 4 -> cmd_close_endpoint

read_data_encode(t) ==
    /\ pc[t] = "encode"
    /\ fn[t] = "read_data"
    /\ cmd_buffer' =
          prepare_endpoint_cmd(cmd_buffer, read_data_cmd(xstep[t]), endpoint[t]).cmd_buffer
    /\ pc' = [pc EXCEPT ![t] = "reinit"]
    /\ UNCHANGED <<stage, mutex, buffer, buffer_recv_size, data_buffer,
                   data_buffer_recv_size, completion, decVars, top, fn, xstep,
                   endpoint, channel, val, ret, histVars>>

\* variant: the results of the first close and of the open are not tested
txn_after_unchecked(k, r) ==
    IF k < 3 THEN "next"
    ELSE IF r # 0 THEN "unlock"
    ELSE IF k = 3 THEN "copy"
    ELSE "unlock"

\* where read_data / write_data go after exchange number k returned r:
\* "unlock" (goto out_unlock or the end), "copy" (the memcpy into data_buffer), "next"
txn_after(k, r) ==
    IF r # 0 THEN "unlock"
    ELSE IF k < 3 THEN "next"
    ELSE IF k = 3 THEN "copy"
    ELSE "unlock"

\* variant: the Incoming Frame is copied after the trailing close, not before
read_data_check_late(t) ==
    /\ pc[t] = "check"
    /\ fn[t] = "read_data"
    /\ LET go == txn_after(xstep[t], ret[t])
       IN  /\ pc' = [pc EXCEPT ![t] = IF go = "unlock" THEN "unlock" ELSE "encode"]
           /\ xstep' = [xstep EXCEPT ![t] = IF go = "unlock" THEN @ ELSE @ + 1]
           /\ IF xstep[t] = 4 /\ ret[t] = 0
              THEN /\ data_buffer' = memcpy(data_buffer, buffer, IN_BUFFER_SIZE)
                   /\ data_buffer_recv_size' = buffer_recv_size
                   /\ dataOwner' = t
              ELSE UNCHANGED <<data_buffer, data_buffer_recv_size, dataOwner>>
    /\ UNCHANGED <<stage, mutex, cmd_buffer, buffer, buffer_recv_size, completion,
                   decVars, top, fn, endpoint, channel, val, ret, produced, xres,
                   wire, capEarly, snap, requested>>

\* read_data: the exchange returned; out_unlock, the copy or the next exchange
read_data_check(t) ==
    /\ pc[t] = "check"
    /\ fn[t] = "read_data"
    /\ LET go == txn_after(xstep[t], ret[t])
       IN  /\ pc' = [pc EXCEPT ![t] = IF go = "unlock" THEN "unlock" ELSE "encode"]
           /\ xstep' = [xstep EXCEPT ![t] = IF go = "unlock" THEN @ ELSE @ + 1]
           /\ IF go = "copy"
              THEN /\ data_buffer' = memcpy(data_buffer, buffer, IN_BUFFER_SIZE)
                   /\ data_buffer_recv_size' = buffer_recv_size
                   /\ dataOwner' = t
              ELSE UNCHANGED <<data_buffer, data_buffer_recv_size, dataOwner>>
    /\ UNCHANGED <<stage, mutex, cmd_buffer, buffer, buffer_recv_size, completion,
                   decVars, top, fn, endpoint, channel, val, ret, produced, xres,
                   wire, capEarly, snap, requested>>

\* const u8 speed_cmd[5] = { 1, channel, 0, val, 0x00 } of set_pwm
speed_cmd(t) == <<1, channel[t] % 256, 0, val[t] % 256, 0>>

\* variant: the length byte counts the data only, not the data type
write_frame_data_len(buf, data_type, data) ==
    LET p == prepare_cmd(buf, cmd_write)
        writer_header_dst == p.ret
        data_type_dst == writer_header_dst + WRITE_DATA_HEADER_SIZE
        data_dst == data_type_dst + Len(data_type)
        hdr == [p.cmd_buffer EXCEPT ![writer_header_dst] = Len(data) % 256]
    IN  [cmd_buffer |-> memcpy_seq(memcpy_seq(hdr, data_type_dst, data_type), data_dst, data),
         ret |-> p.ret]

\* the write frame: cmd_write, the 4-byte header, the data type, the data
write_frame(buf, data_type, data) ==
    LET p == prepare_cmd(buf, cmd_write)
        writer_header_dst == p.ret
        data_type_dst == writer_header_dst + WRITE_DATA_HEADER_SIZE
        data_dst == data_type_dst + Len(data_type)
        hdr == [p.cmd_buffer EXCEPT ![writer_header_dst] = (Len(data_type) + Len(data)) % 256]
    IN  [cmd_buffer |-> memcpy_seq(memcpy_seq(hdr, data_type_dst, data_type), data_dst, data),
         ret |-> p.ret]

write_data_encode(t) ==
    /\ pc[t] = "encode"
    /\ fn[t] = "write_data"
    /\ IF xstep[t] = 3
       THEN LET w == write_frame(cmd_buffer, data_type_set_speed, speed_cmd(t))
            IN  /\ cmd_buffer' = w.cmd_buffer
                /\ ret' = [ret EXCEPT ![t] = w.ret]
       ELSE /\ cmd_buffer' =
                 prepare_endpoint_cmd(cmd_buffer, read_data_cmd(xstep[t]), endpoint[t]).cmd_buffer
            /\ UNCHANGED ret
    /\ pc' = [pc EXCEPT ![t] = "reinit"]
    /\ UNCHANGED <<stage, mutex, buffer, buffer_recv_size, data_buffer,
                   data_buffer_recv_size, completion, decVars, top, fn, xstep,
                   endpoint, channel, val, histVars>>

write_data_check(t) ==
    /\ pc[t] = "check"
    /\ fn[t] = "write_data"
    /\ LET go == txn_after(xstep[t], ret[t])
       IN  /\ pc' = [pc EXCEPT ![t] = IF go = "unlock" THEN "unlock" ELSE "encode"]
           /\ xstep' = [xstep EXCEPT ![t] = IF go = "unlock" THEN @ ELSE @ + 1]
           /\ IF go = "copy"
              THEN /\ data_buffer' = memcpy(data_buffer, buffer, IN_BUFFER_SIZE)
                   /\ dataOwner' = t
              ELSE UNCHANGED <<data_buffer, dataOwner>>
    /\ UNCHANGED <<stage, mutex, cmd_buffer, buffer, buffer_recv_size,
                   data_buffer_recv_size, completion, decVars, top, fn, endpoint,
                   channel, val, ret, produced, xres, wire, capEarly, snap, requested>>


(* --------------------------- response decoders ------------------------- *)
\* a function called by thread t returns r to the hwmon core or to ccxt_probe
fn_return(t, r) ==
    /\ ret' = [ret EXCEPT ![t] = r]
    /\ pc' = [pc EXCEPT ![t] = "return"]

\* thread t enters top-level function f, which starts with the locking function g
fn_call(t, f, g, ep, c, v, at) ==
    /\ top' = [top EXCEPT ![t] = f]
    /\ fn' = [fn EXCEPT ![t] = g]
    /\ endpoint' = [endpoint EXCEPT ![t] = ep]
    /\ channel' = [channel EXCEPT ![t] = c]
    /\ val' = [val EXCEPT ![t] = v]
    /\ ret' = [ret EXCEPT ![t] = 0]
    /\ xstep' = [xstep EXCEPT ![t] = 0]
    /\ produced' = [produced EXCEPT ![t] = FALSE]
    /\ xres' = [xres EXCEPT ![t] = <<>>]
    /\ pc' = [pc EXCEPT ![t] = at]

\* variant: every channel with a nonzero state byte is marked
fan_cnct_marked_nonzero(buf) ==
    {c \in Channels : /\ c < min(buf[FAN_CNT_INDEX], NUM_FANS)
                      /\ buf[FAN_DATA_OFFSET + c] # 0}

\* the channels the loop of get_fan_cnct marks for the response in buf
fan_cnct_marked(buf) ==
    {c \in Channels : /\ c < min(buf[FAN_CNT_INDEX], NUM_FANS)
                      /\ buf[FAN_DATA_OFFSET + c] = FAN_STATE_OK}

\* scnprintf(label, LABEL_LENGTH, "fan%d", channel + 1)
fan_label_of(c) == "fan" \o ToString(c + 1)

\* get_fan_cnct after read_data(ccxt, endpoint_get_fans) returned
get_fan_cnct(t) ==
    /\ pc[t] = "decode"
    /\ top[t] = "get_fan_cnct"
    /\ IF ret[t] # 0
       THEN /\ fn_return(t, ret[t])
            /\ UNCHANGED <<fan_cnct, target, fan_label>>
       ELSE LET marked == fan_cnct_marked(data_buffer)
            IN  /\ fan_cnct' = fan_cnct \cup marked
                /\ target' = [c \in Channels |->
                                 IF c \in marked THEN -ENODATA ELSE target[c]]
                /\ fan_label' = [c \in Channels |->
                                    IF c \in marked THEN fan_label_of(c) ELSE fan_label[c]]
                /\ fn_return(t, 0)
    /\ UNCHANGED <<stage, mutex, devVars, temp_cnct, firmware_ver, top, fn, xstep,
                   endpoint, channel, val, histVars>>

\* variant: the loop marks the sensors with a non-zero state and 0 is returned
get_temp_cnct_marks(t) ==
    /\ pc[t] = "decode"
    /\ top[t] = "get_temp_cnct"
    /\ IF ret[t] # 0
       THEN /\ fn_return(t, ret[t])
            /\ UNCHANGED temp_cnct
       ELSE /\ temp_cnct' = temp_cnct \cup
                   { c \in 0..(NUM_TEMP_SENSORS - 1) :
                        /\ c < data_buffer[TEMP_CNT_INDEX]
                        /\ data_buffer[TEMP_DATA_OFFSET + c] # 0 }
            /\ fn_return(t, 0)
    /\ UNCHANGED <<stage, mutex, devVars, target, fan_cnct, fan_label, firmware_ver,
                   top, fn, xstep, endpoint, channel, val, histVars>>

\* get_temp_cnct after read_data(ccxt, endpoint_get_temperatures) returned
get_temp_cnct(t) ==
    /\ pc[t] = "decode"
    /\ top[t] = "get_temp_cnct"
    /\ fn_return(t, IF ret[t] # 0 THEN ret[t] ELSE -1)
    /\ UNCHANGED <<stage, mutex, devVars, decVars, top, fn, xstep, endpoint, channel,
                   val, histVars>>

\* variant: the (s16) cast is missing
get_fan_rpm_result_unsigned(buf, c) ==
    IF c >= min(buf[FAN_CNT_INDEX], NUM_FANS)
    THEN [ret |-> -EINVAL, set |-> FALSE, val |-> 0]
    ELSE LET data_index == FAN_DATA_OFFSET + c * 2
         IN  [ret |-> 0, set |-> TRUE,
              val |-> (buf[data_index] + buf[data_index + 1] * 256) % 65536]

\* the result of get_fan_rpm for channel c once read_data succeeded
get_fan_rpm_result(buf, c) ==
    IF c >= min(buf[FAN_CNT_INDEX], NUM_FANS)
    THEN [ret |-> -EINVAL, set |-> FALSE, val |-> 0]
    ELSE LET data_index == FAN_DATA_OFFSET + c * 2
         IN  [ret |-> 0, set |-> TRUE,
              val |-> s16((buf[data_index] + buf[data_index + 1] * 256) % 65536)]

\* variant: the channel id of the response is not validated
get_fan_pwm_result_noid(buf, c) ==
    LET data_index == FAN_DATA_OFFSET + c * 4
    IN  IF c >= min(buf[FAN_CNT_INDEX], NUM_FANS)
        THEN [ret |-> -EINVAL, set |-> FALSE, val |-> 0]
        ELSE [ret |-> 0, set |-> TRUE,
              val |-> DIV_ROUND_CLOSEST(buf[data_index + 2] * 255, 100)]

\* the result of get_fan_pwm for channel c once read_data succeeded
get_fan_pwm_result(buf, c) ==
    LET data_index == FAN_DATA_OFFSET + c * 4
    IN  IF c >= min(buf[FAN_CNT_INDEX], NUM_FANS)
        THEN [ret |-> -EINVAL, set |-> FALSE, val |-> 0]
        ELSE IF buf[data_index] # c
        THEN [ret |-> -EIO, set |-> FALSE, val |-> 0]
        ELSE [ret |-> 0, set |-> TRUE,
              val |-> DIV_ROUND_CLOSEST(buf[data_index + 2] * 255, 100)]

\* get_fan_rpm / get_fan_pwm after read_data returned: result r of the decoder
sensor_decode(t, r) ==
    /\ pc[t] = "decode"
    /\ IF ret[t] # 0
       THEN /\ fn_return(t, ret[t])
            /\ UNCHANGED <<val, produced>>
       ELSE /\ fn_return(t, r.ret)
            /\ val' = [val EXCEPT ![t] = IF r.set THEN r.val ELSE @]
            /\ produced' = [produced EXCEPT ![t] = r.set]
    /\ UNCHANGED <<stage, mutex, devVars, decVars, top, fn, xstep, endpoint, channel,
                   xres, wire, capEarly, dataOwner, snap, requested>>

get_fan_rpm(t) ==
    /\ top[t] = "get_fan_rpm"
    /\ sensor_decode(t, get_fan_rpm_result(data_buffer, channel[t]))

get_fan_pwm(t) ==
    /\ top[t] = "get_fan_pwm"
    /\ sensor_decode(t, get_fan_pwm_result(data_buffer, channel[t]))

\* variant: the range of val is not validated
set_pwm_entry_unchecked(t) ==
    /\ pc[t] = "entry"
    /\ top[t] = "set_pwm"
    /\ val' = [val EXCEPT ![t] = DIV_ROUND_CLOSEST(@ * 100, 255)]
    /\ fn' = [fn EXCEPT ![t] = "write_data"]
    /\ endpoint' = [endpoint EXCEPT ![t] = endpoint_fan_pwm]
    /\ pc' = [pc EXCEPT ![t] = "lock"]
    /\ UNCHANGED <<stage, mutex, devVars, decVars, top, xstep, channel, ret, histVars>>

\* set_pwm up to its call of write_data
set_pwm_entry(t) ==
    /\ pc[t] = "entry"
    /\ top[t] = "set_pwm"
    /\ IF val[t] < 0 \/ val[t] > 255
       THEN /\ fn_return(t, -EINVAL)
            /\ UNCHANGED <<val, fn, endpoint>>
       ELSE /\ val' = [val EXCEPT ![t] = DIV_ROUND_CLOSEST(@ * 100, 255)]
            /\ fn' = [fn EXCEPT ![t] = "write_data"]
            /\ endpoint' = [endpoint EXCEPT ![t] = endpoint_fan_pwm]
            /\ pc' = [pc EXCEPT ![t] = "lock"]
            /\ UNCHANGED ret
    /\ UNCHANGED <<stage, mutex, devVars, decVars, top, xstep, channel, histVars>>

\* variant: on success the cached target takes the value written
set_pwm_stores_value(t) ==
    /\ pc[t] = "decode"
    /\ top[t] = "set_pwm"
    /\ target' = IF ret[t] = 0 THEN [target EXCEPT ![channel[t]] = val[t]] ELSE target
    /\ requested' = IF ret[t] = 0 THEN [requested EXCEPT ![channel[t]] = NoRequest]
                    ELSE requested
    /\ fn_return(t, ret[t])
    /\ UNCHANGED <<stage, mutex, devVars, fan_cnct, temp_cnct, fan_label, firmware_ver,
                   top, fn, xstep, endpoint, channel, val, produced, xres, wire,
                   capEarly, dataOwner, snap>>

\* set_pwm after write_data returned
set_pwm(t) ==
    /\ pc[t] = "decode"
    /\ top[t] = "set_pwm"
    /\ target' = IF ret[t] = 0 THEN [target EXCEPT ![channel[t]] = -ENODATA] ELSE target
    /\ requested' = IF ret[t] = 0 THEN [requested EXCEPT ![channel[t]] = NoRequest]
                    ELSE requested
    /\ fn_return(t, ret[t])
    /\ UNCHANGED <<stage, mutex, devVars, fan_cnct, temp_cnct, fan_label, firmware_ver,
                   top, fn, xstep, endpoint, channel, val, produced, xres, wire,
                   capEarly, dataOwner, snap>>

\* set_target up to mutex_lock
set_target_entry(t) ==
    /\ pc[t] = "entry"
    /\ top[t] = "set_target"
    /\ val' = [val EXCEPT ![t] = clamp_val(@, 0, 65535)]
    /\ target' = [target EXCEPT ![channel[t]] = clamp_val(val[t], 0, 65535)]
    /\ pc' = [pc EXCEPT ![t] = "lock"]
    /\ UNCHANGED <<stage, mutex, devVars, fan_cnct, temp_cnct, fan_label, firmware_ver,
                   top, fn, xstep, endpoint, channel, ret, histVars>>

\* set_target: mutex_lock; ret = -1
set_target_lock(t) ==
    /\ pc[t] = "lock"
    /\ fn[t] = "set_target"
    /\ mutex_lock(t)
    /\ snap' = data_buffer
    /\ ret' = [ret EXCEPT ![t] = -1]
    /\ pc' = [pc EXCEPT ![t] = "unlock"]
    /\ UNCHANGED <<stage, devVars, decVars, top, fn, xstep, endpoint, channel, val,
                   produced, xres, wire, capEarly, dataOwner, requested>>

(* ------------------------------ hwmon calls ---------------------------- *)
\* variant: the pwm attributes are not gated by fan_cnct
ccxt_is_visible_pwm_ungated(type, attr, c) ==
    CASE type = "temp" ->
            IF c \notin temp_cnct THEN 0
            ELSE IF attr \in {"input", "label"} THEN 292 ELSE 0
      [] type = "fan" ->
            IF c \notin fan_cnct THEN 0
            ELSE IF attr \in {"input", "label"} THEN 292
            ELSE IF attr = "target" THEN 420 ELSE 0
      [] type = "pwm" -> IF attr = "input" THEN 420 ELSE 0
      [] type = "in" -> IF attr = "input" THEN 292 ELSE 0
      [] OTHER -> 0

\* ccxt_is_visible(data, type, attr, channel): the mode of the attribute
ccxt_is_visible(type, attr, c) ==
    CASE type = "temp" ->
            IF c \notin temp_cnct THEN 0
            ELSE IF attr \in {"input", "label"} THEN 292 ELSE 0
      [] type = "fan" ->
            IF c \notin fan_cnct THEN 0
            ELSE IF attr \in {"input", "label"} THEN 292
            ELSE IF attr = "target" THEN 420 ELSE 0
      [] type = "pwm" ->
            IF c \notin fan_cnct THEN 0
            ELSE IF attr = "input" THEN 420 ELSE 0
      [] type = "in" -> IF attr = "input" THEN 292 ELSE 0
      [] OTHER -> 0

\* the hwmon core calls ccxt_read / ccxt_write only for the attributes it
\* created, those ccxt_is_visible gave a mode for
hwmon_call(t, type, attr, c) ==
    /\ stage = "online"
    /\ pc[t] = "idle"
    /\ ccxt_is_visible(type, attr, c) # 0

\* ccxt_read(dev, hwmon_fan, hwmon_fan_input, c, val)
ccxt_read_fan_input(t, c) ==
    /\ hwmon_call(t, "fan", "input", c)
    /\ fn_call(t, "get_fan_rpm", "read_data", endpoint_fan_state, c, 0, "lock")
    /\ UNCHANGED <<stage, mutex, devVars, decVars, wire, capEarly, dataOwner, snap,
                   requested>>

\* ccxt_read(dev, hwmon_pwm, hwmon_pwm_input, c, val)
ccxt_read_pwm_input(t, c) ==
    /\ hwmon_call(t, "pwm", "input", c)
    /\ fn_call(t, "get_fan_pwm", "read_data", endpoint_fan_pwm, c, 0, "lock")
    /\ UNCHANGED <<stage, mutex, devVars, decVars, wire, capEarly, dataOwner, snap,
                   requested>>

\* ccxt_write(dev, hwmon_pwm, hwmon_pwm_input, c, v)
ccxt_write_pwm_input(t, c, v) ==
    /\ hwmon_call(t, "pwm", "input", c)
    /\ fn_call(t, "set_pwm", "none", 0, c, v, "entry")
    /\ UNCHANGED <<stage, mutex, devVars, decVars, wire, capEarly, dataOwner, snap,
                   requested>>

\* ccxt_write(dev, hwmon_fan, hwmon_fan_target, c, v)
ccxt_write_fan_target(t, c, v) ==
    /\ hwmon_call(t, "fan", "target", c)
    /\ fn_call(t, "set_target", "set_target", 0, c, v, "entry")
    /\ requested' = [requested EXCEPT ![c] = {v}]
    /\ UNCHANGED <<stage, mutex, devVars, decVars, wire, capEarly, dataOwner, snap>>

\* ccxt_read(dev, hwmon_fan, hwmon_fan_target, c, val)
ccxt_read_fan_target(t, c) ==
    /\ hwmon_call(t, "fan", "target", c)
    /\ fn_call(t, "fan_target", "none", 0, c, 0, "entry")
    /\ UNCHANGED <<stage, mutex, devVars, decVars, wire, capEarly, dataOwner, snap,
                   requested>>

\* ccxt_read, hwmon_fan_target: if (ccxt->target[channel] < 0) return -ENODATA;
fan_target_check(t) ==
    /\ pc[t] = "entry"
    /\ top[t] = "fan_target"
    /\ IF target[channel[t]] < 0
       THEN fn_return(t, -ENODATA)
       ELSE /\ pc' = [pc EXCEPT ![t] = "decode"]
            /\ UNCHANGED ret
    /\ UNCHANGED <<stage, mutex, devVars, decVars, top, fn, xstep, endpoint, channel,
                   val, histVars>>

\* ccxt_read, hwmon_fan_target: *val = ccxt->target[channel]; return 0;
fan_target_read(t) ==
    /\ pc[t] = "decode"
    /\ top[t] = "fan_target"
    /\ val' = [val EXCEPT ![t] = target[channel[t]]]
    /\ produced' = [produced EXCEPT ![t] = TRUE]
    /\ fn_return(t, 0)
    /\ UNCHANGED <<stage, mutex, devVars, decVars, top, fn, xstep, endpoint, channel,
                   xres, wire, capEarly, dataOwner, snap, requested>>


\* the hwmon core takes the result of ccxt_read / ccxt_write
ccxt_return(t) ==
    /\ pc[t] = "return"
    /\ fn_call(t, "none", "none", 0, 0, 0, "idle")
    /\ UNCHANGED <<stage, mutex, devVars, decVars, wire, capEarly, dataOwner, snap, requested>>

(* ------------------------------ lifecycle ------------------------------ *)
lifeUnchanged == <<mutex, devVars, decVars, wire, capEarly, dataOwner, snap, requested>>

\* ccxt_probe: ret = set_software_mode(ccxt)
ccxt_probe_set_software_mode ==
    /\ stage = "probe"
    /\ pc[Core] = "idle"
    /\ top[Core] = "none"
    /\ fn_call(Core, "set_software_mode", "set_software_mode", 0, 0, 0, "lock")
    /\ UNCHANGED <<stage, lifeUnchanged>>

\* ccxt_probe fails: goto out_hw_close; hid_hw_close; hid_hw_stop; return ret
ccxt_probe_fail(r) ==
    /\ stage' = "failed"
    /\ top' = [top EXCEPT ![Core] = "ccxt_probe"]
    /\ ret' = [ret EXCEPT ![Core] = r]
    /\ pc' = [pc EXCEPT ![Core] = "idle"]
    /\ UNCHANGED <<fn, xstep, endpoint, channel, val, produced, xres>>

\* ccxt_probe: if (ret) goto out_hw_close; ret = get_fan_cnct(ccxt)
ccxt_probe_get_fan_cnct ==
    /\ stage = "probe"
    /\ pc[Core] = "return"
    /\ top[Core] = "set_software_mode"
    /\ IF ret[Core] # 0
       THEN ccxt_probe_fail(ret[Core])
       ELSE /\ fn_call(Core, "get_fan_cnct", "read_data", endpoint_get_fans, 0, 0, "lock")
            /\ UNCHANGED stage
    /\ UNCHANGED lifeUnchanged

\* variant: the result of get_fan_cnct is not tested
ccxt_probe_get_temp_cnct_unchecked ==
    /\ stage = "probe"
    /\ pc[Core] = "return"
    /\ top[Core] = "get_fan_cnct"
    /\ fn_call(Core, "get_temp_cnct", "read_data", endpoint_get_temperatures, 0, 0, "lock")
    /\ UNCHANGED <<stage, lifeUnchanged>>

\* ccxt_probe: if (ret) goto out_hw_close; ret = get_temp_cnct(ccxt)
ccxt_probe_get_temp_cnct ==
    /\ stage = "probe"
    /\ pc[Core] = "return"
    /\ top[Core] = "get_fan_cnct"
    /\ IF ret[Core] # 0
       THEN ccxt_probe_fail(ret[Core])
       ELSE /\ fn_call(Core, "get_temp_cnct", "read_data", endpoint_get_temperatures,
                       0, 0, "lock")
            /\ UNCHANGED stage
    /\ UNCHANGED lifeUnchanged

\* ccxt_debugfs_init: ret = get_fw_version(ccxt)
ccxt_debugfs_init ==
    /\ stage = "probe"
    /\ pc[Core] = "return"
    /\ top[Core] = "get_temp_cnct"
    /\ fn_call(Core, "get_fw_version", "get_fw_version", 0, 0, 0, "lock")
    /\ UNCHANGED <<stage, lifeUnchanged>>

\* errors hwmon_device_register_with_info may return
RegisterErrors == {-12}

\* ccxt_debugfs_init: get_bl_version returns -1; then
\* ccxt_probe: hwmon_device_register_with_info, return 0 or goto out_hw_close
ccxt_probe_register ==
    /\ stage = "probe"
    /\ pc[Core] = "return"
    /\ top[Core] = "get_fw_version"
    /\ \/ /\ stage' = "online"
          /\ top' = [top EXCEPT ![Core] = "ccxt_probe"]
          /\ ret' = [ret EXCEPT ![Core] = 0]
          /\ pc' = [pc EXCEPT ![Core] = "idle"]
          /\ UNCHANGED <<fn, xstep, endpoint, channel, val, produced, xres>>
       \/ \E e \in RegisterErrors : ccxt_probe_fail(e)
    /\ UNCHANGED lifeUnchanged

\* variant: set_hardware_mode is called before hwmon_device_unregister
ccxt_remove_early ==
    /\ stage = "online"
    /\ pc[Core] = "idle"
    /\ stage' = "remove"
    /\ fn_call(Core, "set_hardware_mode", "set_hardware_mode", 0, 0, 0, "lock")
    /\ UNCHANGED lifeUnchanged

\* ccxt_remove: debugfs_remove_recursive; hwmon_device_unregister (which waits
\* for the hwmon callbacks in progress); set_hardware_mode(ccxt)
ccxt_remove ==
    /\ stage = "online"
    /\ pc[Core] = "idle"
    /\ \A t \in Callers : pc[t] = "idle"
    /\ stage' = "remove"
    /\ fn_call(Core, "set_hardware_mode", "set_hardware_mode", 0, 0, 0, "lock")
    /\ UNCHANGED lifeUnchanged

\* ccxt_remove: hid_hw_close; hid_hw_stop
ccxt_remove_stop ==
    /\ stage = "remove"
    /\ pc[Core] = "return"
    /\ top[Core] = "set_hardware_mode"
    /\ stage' = "removed"
    /\ top' = [top EXCEPT ![Core] = "ccxt_remove"]
    /\ pc' = [pc EXCEPT ![Core] = "idle"]
    /\ UNCHANGED <<lifeUnchanged, fn, xstep, endpoint, channel, val, ret,
                   produced, xres>>

(* --------------------------- specifications ---------------------------- *)
CoreStep ==
    \/ ccxt_probe_set_software_mode
    \/ ccxt_probe_get_fan_cnct
    \/ ccxt_probe_get_temp_cnct
    \/ ccxt_debugfs_init
    \/ ccxt_probe_register
    \/ ccxt_remove
    \/ ccxt_remove_stop
    \/ get_fan_cnct(Core)
    \/ get_temp_cnct(Core)

\* the steps of the locking functions ccxt_probe, ccxt_remove and ccxt_read use
ExchangeStep(t) ==
    \/ txn_lock(t)
    \/ single_encode(t)
    \/ read_data_encode(t)
    \/ send_usb_reinit(t)
    \/ send_usb_wait(t)
    \/ send_usb_inspect(t)
    \/ set_mode_check(t)
    \/ get_fw_version_check(t)
    \/ read_data_check(t)
    \/ txn_unlock(t)

ReadStep(t) ==
    \/ get_fan_rpm(t)
    \/ get_fan_pwm(t)
    \/ ccxt_return(t)

PwmStep(t) ==
    \/ set_pwm_entry(t)
    \/ write_data_encode(t)
    \/ write_data_check(t)
    \/ set_pwm(t)

TargetStep(t) ==
    \/ set_target_entry(t)
    \/ set_target_lock(t)

\* what hid_hw_output_report returns: the frame size or a transport error
SendResults == {OUT_BUFFER_SIZE, -19}

(* Spec: the whole driver with NumCallers concurrent hwmon callers; the    *)
(* transport accepts every frame.                                          *)
ConcReports ==
    { Report(IN_BUFFER_SIZE, <<0, 0, 0, 1, 2, 6, 7, 0, 50>>),
      Report(IN_BUFFER_SIZE, <<1>>) }

ConcChannels == {0}
ConcPwm == {128}
ConcTarget == {1200}

Next ==
    \/ \E r \in ConcReports : ccxt_raw_event(r)
    \/ CoreStep
    \/ \E t \in Threads : ExchangeStep(t)
    \/ \E t \in Threads : send_usb_send(t, OUT_BUFFER_SIZE)
    \/ \E t \in Callers : ReadStep(t) \/ PwmStep(t) \/ TargetStep(t)
    \/ \E t \in Callers, c \in ConcChannels : ccxt_read_fan_input(t, c)
    \/ \E t \in Callers, c \in ConcChannels : ccxt_read_pwm_input(t, c)
    \/ \E t \in Callers, c \in ConcChannels, v \in ConcPwm : ccxt_write_pwm_input(t, c, v)
    \/ \E t \in Callers, c \in ConcChannels, v \in ConcTarget : ccxt_write_fan_target(t, c, v)

Spec == Init /\ [][Next]_vars

(* SpecExchange: ccxt_probe and ccxt_remove alone, against every status    *)
(* byte class and reply length.                                            *)
StatusBytes == {0, 1, 2, 15, 16, 17, 18, 19, 255}
ReplySizes == {8, 383, 385}

StatusReports ==
    { Report(IN_BUFFER_SIZE, <<b>>) : b \in StatusBytes }
      \cup { Report(n, <<b>>) : n \in ReplySizes, b \in {0, 1, 17} }

NextExchange ==
    \/ \E r \in StatusReports : ccxt_raw_event(r)
    \/ CoreStep
    \/ ExchangeStep(Core)
    \/ \E e \in SendResults : send_usb_send(Core, e)

SpecExchange == Init /\ [][NextExchange]_vars

(* SpecSeq: ccxt_probe, then one hwmon caller at a time, then ccxt_remove. *)
SeqCaller == CHOOSE t \in Callers : TRUE

SeqReports ==
    { Report(IN_BUFFER_SIZE, <<0, 0, 0, 1, 2, 6, 7, 0, 50>>),
      Report(IN_BUFFER_SIZE, <<0, 0, 0, 3, 4, 2, 0, 0, 100>>),
      Report(IN_BUFFER_SIZE, <<17>>),
      Report(64, <<0>>) }

NextSeq ==
    \/ \E r \in SeqReports : ccxt_raw_event(r)
    \/ CoreStep
    \/ \E t \in {Core, SeqCaller} : ExchangeStep(t)
    \/ \E t \in {Core, SeqCaller}, e \in SendResults : send_usb_send(t, e)
    \/ ReadStep(SeqCaller)
    \/ PwmStep(SeqCaller)
    \/ \E c \in ConcChannels : ccxt_read_fan_input(SeqCaller, c)
    \/ \E c \in ConcChannels : ccxt_read_pwm_input(SeqCaller, c)
    \/ \E c \in ConcChannels, v \in ConcPwm : ccxt_write_pwm_input(SeqCaller, c, v)

SpecSeq == Init /\ [][NextSeq]_vars

(* SpecDecode: ccxt_probe and one hwmon caller reading pwm inputs, against *)
(* responses that differ in count, state bytes, channel ids and values.    *)
DecodeReports ==
    { Report(IN_BUFFER_SIZE, <<0, 0, 0, 1, 2, 3, 7, 0, 7, 7, 0, 0>>),
      Report(IN_BUFFER_SIZE, <<0, 0, 0, 0, 0, 2, 0, 0, 50, 0, 1, 0, 100, 0, 2, 0, 33>>),
      Report(IN_BUFFER_SIZE, <<0, 0, 0, 0, 0, 8, 7, 7, 3, 7, 7, 7, 7>>),
      Report(IN_BUFFER_SIZE, <<0, 0, 0, 0, 0, 6, 0, 0, 255, 0, 1, 0, 1, 0, 2, 0, 99, 0,
                               3, 0, 10, 0, 4, 0, 0, 0, 9, 0, 77>>),
      Report(IN_BUFFER_SIZE, <<16>>) }

NextDecode ==
    \/ \E r \in DecodeReports : ccxt_raw_event(r)
    \/ CoreStep
    \/ \E t \in {Core, SeqCaller} : ExchangeStep(t)
    \/ \E t \in {Core, SeqCaller} : send_usb_send(t, OUT_BUFFER_SIZE)
    \/ get_fan_pwm(SeqCaller)
    \/ ccxt_return(SeqCaller)
    \/ \E c \in Channels : ccxt_read_pwm_input(SeqCaller, c)

SpecDecode == Init /\ [][NextDecode]_vars

(* SpecRpm: ccxt_probe and one hwmon caller reading fan inputs of all      *)
(* channels, against fan-state responses with counts 3 and 6 and speeds    *)
(* on both sides of the sign bit.                                          *)
RpmReports ==
    { Report(IN_BUFFER_SIZE, <<0, 0, 0, 0, 0, 6, 7, 7, 7, 7, 7, 7>>),
      Report(IN_BUFFER_SIZE, <<0, 0, 0, 0, 0, 3, 255, 255, 176, 4, 0, 128>>),
      Report(IN_BUFFER_SIZE, <<0, 0, 0, 0, 0, 6, 1, 0, 255, 127, 3, 0, 4, 0, 5, 0,
                               52, 146>>) }

NextRpm ==
    \/ \E r \in RpmReports : ccxt_raw_event(r)
    \/ CoreStep
    \/ \E t \in {Core, SeqCaller} : ExchangeStep(t)
    \/ \E t \in {Core, SeqCaller} : send_usb_send(t, OUT_BUFFER_SIZE)
    \/ get_fan_rpm(SeqCaller)
    \/ ccxt_return(SeqCaller)
    \/ \E c \in Channels : ccxt_read_fan_input(SeqCaller, c)

SpecRpm == Init /\ [][NextRpm]_vars

(* SpecPwm: ccxt_probe and one hwmon caller writing every pwm value of     *)
(* the range 0..255, and values outside of it, to channel 0, and one value *)
(* to channel 3.                                                           *)
PwmInputs == (-1..256) \cup {-40000, 70000}
PwmOther == {200}

PwmReports == { Report(IN_BUFFER_SIZE, <<0, 0, 0, 0, 0, 4, 7, 0, 0, 7>>) }

NextPwm ==
    \/ \E r \in PwmReports : ccxt_raw_event(r)
    \/ CoreStep
    \/ \E t \in {Core, SeqCaller} : ExchangeStep(t)
    \/ \E t \in {Core, SeqCaller} : send_usb_send(t, OUT_BUFFER_SIZE)
    \/ PwmStep(SeqCaller)
    \/ ccxt_return(SeqCaller)
    \/ \E v \in PwmInputs : ccxt_write_pwm_input(SeqCaller, 0, v)
    \/ \E v \in PwmOther : ccxt_write_pwm_input(SeqCaller, 3, v)

SpecPwm == Init /\ [][NextPwm]_vars

\* the fan-target read of ccxt_read
FanTargetStep(t) ==
    \/ fan_target_check(t)
    \/ fan_target_read(t)

(* SpecTarget: ccxt_probe and one hwmon caller writing fan targets and pwm *)
(* values and reading fan targets on two connected channels.               *)
TargetChannels == {0, 2}
TargetInputs == {-5, 1200, 70000}

TargetReports ==
    { Report(IN_BUFFER_SIZE, <<0, 0, 0, 0, 0, 3, 7, 0, 7>>),
      Report(IN_BUFFER_SIZE, <<17>>) }

NextTarget ==
    \/ \E r \in TargetReports : ccxt_raw_event(r)
    \/ CoreStep
    \/ \E t \in {Core, SeqCaller} : ExchangeStep(t)
    \/ \E t \in {Core, SeqCaller} : send_usb_send(t, OUT_BUFFER_SIZE)
    \/ PwmStep(SeqCaller)
    \/ TargetStep(SeqCaller)
    \/ FanTargetStep(SeqCaller)
    \/ ccxt_return(SeqCaller)
    \/ \E c \in TargetChannels, v \in ConcPwm : ccxt_write_pwm_input(SeqCaller, c, v)
    \/ \E c \in TargetChannels, v \in TargetInputs : ccxt_write_fan_target(SeqCaller, c, v)
    \/ \E c \in TargetChannels : ccxt_read_fan_target(SeqCaller, c)

SpecTarget == Init /\ [][NextTarget]_vars

(* SpecCache: two hwmon callers writing the fan target and the pwm value   *)
(* of channel 0 and reading its fan target concurrently.                   *)
NextCache ==
    \/ \E r \in PwmReports : ccxt_raw_event(r)
    \/ CoreStep
    \/ \E t \in Threads : ExchangeStep(t)
    \/ \E t \in Threads : send_usb_send(t, OUT_BUFFER_SIZE)
    \/ \E t \in Callers :
          \/ PwmStep(t)
          \/ TargetStep(t)
          \/ FanTargetStep(t)
          \/ ccxt_return(t)
          \/ \E c \in ConcChannels, v \in ConcPwm : ccxt_write_pwm_input(t, c, v)
          \/ \E c \in ConcChannels, v \in ConcTarget : ccxt_write_fan_target(t, c, v)
          \/ \E c \in ConcChannels : ccxt_read_fan_target(t, c)

SpecCache == Init /\ [][NextCache]_vars

(* SpecFair: two concurrent hwmon callers, one reading the speed and one   *)
(* writing the pwm of a fan, with good and error replies, timeouts and     *)
(* transport failures, under fair scheduling.  A thread that can run a step of its   *)
(* operation eventually runs it: every statement of the driver returns and *)
(* wait_for_completion_timeout returns after REQ_TIMEOUT at the latest.    *)
(* A thread blocked in mutex_lock is queued as a waiter and the mutex is   *)
(* handed to it, so a lock that is free again and again is eventually      *)
(* taken by each thread that waits for it.                                 *)
FairReports ==
    { Report(IN_BUFFER_SIZE, <<0, 0, 0, 0, 0, 1, 7>>),
      Report(IN_BUFFER_SIZE, <<1>>) }

\* the steps of thread t other than the start of an operation
Run(t) ==
    \/ ExchangeStep(t)
    \/ \E e \in SendResults : send_usb_send(t, e)
    \/ t = Core /\ CoreStep
    \/ t \in Callers /\ (ReadStep(t) \/ PwmStep(t))

Reader == SeqCaller
Writer == CHOOSE t \in Callers : t # Reader

NextFair ==
    \/ \E r \in FairReports : ccxt_raw_event(r)
    \/ \E t \in Threads : Run(t)
    \/ \E c \in ConcChannels : ccxt_read_fan_input(Reader, c)
    \/ \E c \in ConcChannels, v \in ConcPwm : ccxt_write_pwm_input(Writer, c, v)

Fairness ==
    \A t \in Threads : WF_vars(Run(t)) /\ SF_vars(txn_lock(t))

SpecFair == Init /\ [][NextFair]_vars /\ Fairness


(* ------------------------------- claims -------------------------------- *)
Last(q) == q[Len(q)]

\* thread t is between the encoding of a frame and the release of the mutex
InExchange(t) ==
    pc[t] \in {"encode", "reinit", "send", "wait", "inspect", "check", "unlock"}

\* C1: exchanges of concurrent callers never interleave.  A thread that
\* encodes a frame, sends it, waits or inspects the Incoming Frame is the
\* only holder of the mutex, and every frame handed to the transport either
\* opens an operation while no other operation has a frame on the wire, or is
\* the next frame of the operation that sent the previous one.
C1_ExchangesNeverInterleave ==
    /\ [](\A t \in Threads : InExchange(t) => mutex = {t})
    /\ [][(wire' # wire /\ wire' # NoFrame) =>
             IF wire'.xstep = 1
             THEN wire = NoFrame
             ELSE /\ wire.t = wire'.t
                  /\ wire.fn = wire'.fn
                  /\ wire.xstep = wire'.xstep - 1]_vars

\* C1 witness: one caller is at the trailing close of its transaction while
\* another caller is blocked on the mutex
C1_Witness ==
    \E t \in Callers, u \in Callers :
        /\ t # u
        /\ pc[t] = "wait" /\ xstep[t] = 4 /\ wire.t = t /\ wire.xstep = 4
        /\ pc[u] = "lock"

\* C2: what a sensor operation decodes after its endpoint transaction is what
\* its own transaction copied into the Data Buffer: when a caller is about to
\* decode, the last writer of the Data Buffer is that caller.
C2_DecodesOwnTransaction ==
    \A t \in Callers : (pc[t] = "decode" /\ ret[t] = 0) => dataOwner = t

\* C3: the report from which send_usb computes its result was delivered
\* after the exchange's own frame was handed to the transport.
C3_ReplyFollowsOwnFrame ==
    \A t \in Threads : pc[t] = "inspect" => ~capEarly

\* C4: for a captured reply of length 384 the result of send_usb is decided
\* by reply byte 0 alone: 0x00 success, 0x01 Unsupported, 0x10
\* InvalidArgument, 0x11 and 0x12 NoData, everything else IOError.
C4_StatusByteMapping ==
    [][\A t \in Threads :
          (pc[t] = "inspect" /\ pc'[t] = "check" /\ buffer_recv_size = 384) =>
             LET b == buffer[0]
                 r == ret'[t]
             IN  /\ b = 0 => r = 0
                 /\ b = 1 => r = -EOPNOTSUPP
                 /\ b = 16 => r = -EINVAL
                 /\ b \in {17, 18} => r = -ENODATA
                 /\ b \in (2..15) \cup (19..255) => r = -EIO]_vars

\* C4 witness: a reply of length 384 with status 0x12 was mapped to NoData
C4_Witness ==
    /\ pc[Core] = "check"
    /\ buffer_recv_size = 384
    /\ buffer[0] = 18
    /\ xres[Core] # <<>>
    /\ Last(xres[Core]) = -ENODATA

\* C5: a captured report whose length differs from 384 makes send_usb return
\* ProtocolError whatever its status byte is.
C5_WrongLengthIsProtocolError ==
    [][\A t \in Threads :
          (pc[t] = "inspect" /\ pc'[t] = "check" /\ buffer_recv_size # 384) =>
             ret'[t] = -EPROTO]_vars

\* C5 witness: a report longer than 384 bytes with status 0x00 gave ProtocolError
C5_Witness ==
    /\ pc[Core] = "check"
    /\ buffer_recv_size > 384
    /\ buffer[0] = 0
    /\ xres[Core] # <<>>
    /\ Last(xres[Core]) = -EPROTO

\* the last exchange of the function thread t is running timed out
TimedOut(t) ==
    /\ pc[t] \in {"check", "unlock", "decode"}
    /\ xres[t] # <<>>
    /\ Last(xres[t]) = -ETIMEDOUT

decodedState ==
    <<data_buffer, data_buffer_recv_size, firmware_ver, fan_cnct, temp_cnct, target,
      fan_label>>

\* C6 as stated: when an exchange timed out, the enclosing operation has
\* changed none of the decoded state; for the Data Buffer: it is as it was
\* when the operation took the mutex.
C6_TimeoutChangesNothing ==
    \A t \in Threads : (TimedOut(t) /\ pc[t] = "unlock") => data_buffer = snap

\* C6 amended: a wait that expires with no report captured since the reset
\* makes send_usb return Timeout without inspecting the Incoming Frame; from
\* then on the enclosing operation changes none of the decoded state; and the
\* Data Buffer is as it was before the operation unless the exchange that
\* timed out is the trailing close of read_data / write_data, which follows
\* the copy of the read / write reply into the Data Buffer.
C6_TimeoutDecodesNothingStale ==
    /\ [][\A t \in Threads :
             (pc[t] = "wait" /\ pc'[t] # pc[t] /\ ~completion) =>
                /\ pc'[t] = "check"
                /\ ret'[t] = -ETIMEDOUT
                /\ UNCHANGED decodedState]_vars
    /\ [][\A t \in Threads :
             (TimedOut(t) /\ pc'[t] # pc[t]) => UNCHANGED decodedState]_vars
    /\ [](\A t \in Threads :
             (TimedOut(t) /\ pc[t] = "unlock" /\ Len(xres[t]) <= 3) =>
                data_buffer = snap)

\* C6 witness: the trailing close of a read transaction timed out while the
\* Incoming Frame still holds a complete earlier reply with status 0x00, and
\* the Data Buffer was overwritten by this operation
C6_Witness ==
    /\ TimedOut(SeqCaller)
    /\ pc[SeqCaller] = "unlock"
    /\ fn[SeqCaller] = "read_data"
    /\ Len(xres[SeqCaller]) = 4
    /\ buffer_recv_size = 384
    /\ buffer[0] = 0
    /\ data_buffer # snap

\* the Outgoing Frame holding exactly the bytes q, zero padded
FrameOf(q) == [i \in 0..(CmdView - 1) |-> IF i < Len(q) THEN q[i + 1] ELSE 0]

\* C7: read_data and write_data hand close(e), open(e), read-or-write,
\* close(e) to the transport in this order; when one of the first three
\* exchanges fails the function returns that exchange's error, no further
\* frame is sent and the Data Buffer is unchanged.
C7_TransactionOrderAndAbort ==
    /\ [][(wire' # wire /\ wire'.fn \in {"read_data", "write_data"}) =>
             LET k == wire'.xstep
                 t == wire'.t
                 e == endpoint[t]
             IN  /\ k \in 1..4
                 /\ k = 1 => wire = NoFrame
                 /\ k > 1 => (wire.t = t /\ wire.xstep = k - 1)
                 /\ xres[t] = [i \in 1..(k - 1) |-> 0]
                 /\ k \in {1, 4} => wire'.frame = FrameOf(<<0, 8, 5, 1, 1, e>>)
                 /\ k = 2 => wire'.frame = FrameOf(<<0, 8, 13, 1, e>>)
                 /\ (k = 3 /\ wire'.fn = "read_data") =>
                        wire'.frame = FrameOf(<<0, 8, 8, 1, e>>)
                 /\ (k = 3 /\ wire'.fn = "write_data") =>
                        /\ wire'.frame[0] = 0 /\ wire'.frame[1] = 8
                        /\ wire'.frame[2] = 6 /\ wire'.frame[3] = 1]_vars
    /\ [](\A t \in Threads :
             (/\ fn[t] \in {"read_data", "write_data"}
              /\ pc[t] \in {"unlock", "decode"}
              /\ xres[t] # <<>>
              /\ Last(xres[t]) # 0
              /\ Len(xres[t]) <= 3) =>
                /\ ret[t] = Last(xres[t])
                /\ pc[t] = "unlock" => (wire.xstep = Len(xres[t]) /\ data_buffer = snap))
    /\ [][\A t \in Threads :
             (/\ fn[t] \in {"read_data", "write_data"}
              /\ pc[t] \in {"check", "unlock"}
              /\ pc'[t] # pc[t]
              /\ Last(xres[t]) # 0
              /\ Len(xres[t]) <= 3) =>
                /\ pc'[t] \in {"unlock", "decode"}
                /\ wire' \in {wire, NoFrame}
                /\ UNCHANGED <<data_buffer, data_buffer_recv_size>>]_vars

\* C7 witness: the open-endpoint exchange of a write transaction failed after
\* the first close succeeded, and write_data has returned that error
C7_Witness ==
    /\ pc[SeqCaller] = "decode"
    /\ fn[SeqCaller] = "write_data"
    /\ Len(xres[SeqCaller]) = 2
    /\ xres[SeqCaller][1] = 0
    /\ ret[SeqCaller] = -ENODATA

\* only the trailing close of the transaction of thread t failed
TrailingCloseFailed(t) ==
    /\ fn[t] \in {"read_data", "write_data"}
    /\ Len(xres[t]) = 4
    /\ xres[t][4] # 0

C9_InventoryMarksExactlyOkChannels ==
    [][\A t \in Threads :
          (/\ pc[t] = "decode" /\ top[t] = "get_fan_cnct" /\ ret[t] = 0
           /\ pc'[t] = "return") =>
             LET n == data_buffer[5]
                 lim == IF n < 6 THEN n ELSE 6
                 ok == {i \in 0..5 : i < lim /\ data_buffer[6 + i] = 7}
                 names == <<"fan1", "fan2", "fan3", "fan4", "fan5", "fan6">>
             IN  /\ fan_cnct = {}
                 /\ fan_cnct' = ok
                 /\ \A i \in ok : fan_label'[i] = names[i + 1] /\ target'[i] = -ENODATA
                 /\ \A i \in (0..5) \ ok :
                        /\ fan_label'[i] = fan_label[i]
                        /\ target'[i] = target[i]
                        /\ (i \in fan_cnct') = (i \in fan_cnct)
                 /\ ret'[t] = 0]_vars

\* C9 witness: count 3 with states 0x07, 0x00, 0x07 was decoded to the
\* connected set {0, 2} with labels fan1 and fan3
C9_Witness ==
    /\ pc[Core] = "return"
    /\ top[Core] = "get_fan_cnct"
    /\ data_buffer[5] = 3
    /\ data_buffer[6] = 7 /\ data_buffer[7] = 0 /\ data_buffer[8] = 7
    /\ data_buffer[9] = 7
    /\ fan_cnct = {0, 2}
    /\ fan_label[0] = "fan1" /\ fan_label[1] = "" /\ fan_label[2] = "fan3"
    /\ fan_label[3] = ""

\* C10: after a successful fan-pwm read transaction get_fan_pwm for channel c
\* returns InvalidArgument when c >= min(count, 6), IOError when the byte at
\* offset 6 + 4c differs from c, and otherwise the nearest integer to
\* b * 255 / 100 for the byte b at offset 6 + 4c + 2; no value is produced on
\* any error.
C10_FanPwmDecode ==
    [][\A t \in Threads :
          (/\ pc[t] = "decode" /\ top[t] = "get_fan_pwm" /\ pc'[t] = "return") =>
             LET c == channel[t]
                 n == data_buffer[5]
                 lim == IF n < 6 THEN n ELSE 6
                 id == data_buffer[6 + 4 * c]
                 b == data_buffer[6 + 4 * c + 2]
             IN  /\ (ret[t] = 0 /\ c >= lim) => ret'[t] = -EINVAL
                 /\ (ret[t] = 0 /\ c < lim /\ id # c) => ret'[t] = -EIO
                 /\ (ret[t] = 0 /\ c < lim /\ id = c) =>
                        /\ ret'[t] = 0
                        /\ produced'[t]
                        /\ 100 * val'[t] <= 255 * b + 50
                        /\ 255 * b + 50 < 100 * (val'[t] + 1)
                 /\ ret[t] # 0 => ret'[t] = ret[t]
                 /\ ret'[t] # 0 => (~produced'[t] /\ val'[t] = val[t])]_vars

\* C10 witness: all four exchanges of the transaction succeeded and the
\* response carries id 9 where channel 5 was asked for: IOError, no value
C10_Witness ==
    /\ pc[SeqCaller] = "return"
    /\ top[SeqCaller] = "get_fan_pwm"
    /\ xres[SeqCaller] = <<0, 0, 0, 0>>
    /\ channel[SeqCaller] = 5
    /\ data_buffer[5] = 6
    /\ data_buffer[26] = 9
    /\ ret[SeqCaller] = -EIO
    /\ ~produced[SeqCaller]

\* C11: after a successful fan-state read transaction get_fan_rpm for
\* channel c < min(count, 6) returns the signed 16-bit value with low byte
\* at offset 6 + 2c and high byte at offset 6 + 2c + 1 of the Data Buffer
\* (0xFFFF gives -1); for c >= min(count, 6) it returns InvalidArgument and
\* produces no value.
C11_FanRpmDecode ==
    [][\A t \in Threads :
          (/\ pc[t] = "decode" /\ top[t] = "get_fan_rpm" /\ ret[t] = 0
           /\ pc'[t] = "return") =>
             LET c == channel[t]
                 n == data_buffer[5]
                 lim == IF n < 6 THEN n ELSE 6
                 lo == data_buffer[6 + 2 * c]
                 hi == data_buffer[6 + 2 * c + 1]
             IN  /\ c < lim =>
                        /\ ret'[t] = 0
                        /\ produced'[t]
                        /\ val'[t] \in -32768..32767
                        /\ (val'[t] - (lo + 256 * hi)) % 65536 = 0
                 /\ c >= lim =>
                        /\ ret'[t] = -EINVAL
                        /\ ~produced'[t]
                        /\ val'[t] = val[t]]_vars

\* C11 witness: channel 0 of a response with count 3 carries 0xFF 0xFF and
\* get_fan_rpm returned -1
C11_Witness ==
    /\ pc[SeqCaller] = "return"
    /\ top[SeqCaller] = "get_fan_rpm"
    /\ xres[SeqCaller] = <<0, 0, 0, 0>>
    /\ channel[SeqCaller] = 0
    /\ data_buffer[5] = 3
    /\ data_buffer[6] = 255 /\ data_buffer[7] = 255
    /\ ret[SeqCaller] = 0
    /\ produced[SeqCaller]
    /\ val[SeqCaller] = -1

\* a fan-pwm response that reports six channels and echoes id c and the
\* device-scale value d for channel c
PwmEcho(c, d) ==
    [i \in 0..(BufView - 1) |->
        IF i = 5 THEN 6
        ELSE IF i = 6 + 4 * c THEN c
        ELSE IF i = 6 + 4 * c + 2 THEN d
        ELSE 0]

\* C12: for every host pwm value v in 0..255 the device-scale value set_pwm
\* computes lies in 0..100, and get_fan_pwm decoding that value gives a
\* result within 1 of v; 128 maps to 50, which maps back to 128.
C12_PwmRoundTrip ==
    [][\A t \in Threads :
          (/\ pc[t] = "entry" /\ top[t] = "set_pwm" /\ pc'[t] # pc[t]
           /\ val[t] \in 0..255) =>
             LET v == val[t]
                 d == val'[t]
                 back == get_fan_pwm_result(PwmEcho(channel[t], d), channel[t])
             IN  /\ pc'[t] = "lock"
                 /\ d \in 0..100
                 /\ back.ret = 0
                 /\ back.val - v \in {-1, 0, 1}
                 /\ v = 128 => (d = 50 /\ back.val = 128)
                 /\ v = 0 => d = 0
                 /\ v = 255 => d = 100]_vars

\* C12 witness: the write frame of set_pwm on channel 0 carries the
\* device-scale value 50 in its payload { 1, channel, 0, val, 0 }
C12_Witness ==
    /\ top[SeqCaller] = "set_pwm"
    /\ pc[SeqCaller] = "wait"
    /\ wire.t = SeqCaller
    /\ wire.xstep = 3
    /\ wire.frame[10] = 1 /\ wire.frame[11] = 0 /\ wire.frame[13] = 50
    /\ val[SeqCaller] = 50

\* C13: set_pwm with a value below 0 or above 255 returns InvalidArgument
\* without taking the mutex, without encoding or sending a frame and without
\* changing a cached target or the Data Buffer.
C13_PwmRangeRejected ==
    /\ [][\A t \in Threads :
             (/\ pc[t] = "entry" /\ top[t] = "set_pwm" /\ pc'[t] # pc[t]
              /\ (val[t] < 0 \/ val[t] > 255)) =>
                /\ pc'[t] = "return"
                /\ ret'[t] = -EINVAL
                /\ UNCHANGED <<mutex, cmd_buffer, completion, buffer, data_buffer,
                               data_buffer_recv_size, target, wire, xres>>]_vars
    /\ [](\A t \in Threads :
             (pc[t] = "return" /\ top[t] = "set_pwm" /\ (val[t] < 0 \/ val[t] > 255)) =>
                /\ ret[t] = -EINVAL
                /\ xres[t] = <<>>
                /\ t \notin mutex)

\* C13 witness: set_pwm(256) has returned InvalidArgument with no exchange
C13_Witness ==
    /\ pc[SeqCaller] = "return"
    /\ top[SeqCaller] = "set_pwm"
    /\ val[SeqCaller] = 256
    /\ ret[SeqCaller] = -EINVAL
    /\ xres[SeqCaller] = <<>>
    /\ wire = NoFrame

DeviceAcceptedWrite(t) ==
    /\ fn[t] = "write_data"
    /\ Len(xres[t]) >= 3
    /\ xres[t][3] = 0

\* C15: whenever set_pwm returns an error, the device-side pwm setting of the
\* channel is the same as before the call: the device has not accepted the
\* write frame of this call. (The other half of the claim, the cached
\* targets being unchanged on an error, is C8's.)
C15_FailedPwmWriteChangesNothing ==
    \A t \in Threads :
        (pc[t] = "return" /\ top[t] = "set_pwm" /\ ret[t] # 0) => ~DeviceAcceptedWrite(t)

\* the value set_target is specified to store for a request v
Clamped(v) == IF v < 0 THEN 0 ELSE IF v > 65535 THEN 65535 ELSE v

\* C16: set_target on channel c with value v returns failure, sends no
\* frame, stores min(max(v, 0), 65535) as the cached target of c, so that a
\* following fan-target read of c returns it, leaves the other targets
\* unchanged and releases the mutex.
C16_SetTargetStub ==
    /\ [][\A t \in Threads :
             (pc[t] = "entry" /\ top[t] = "set_target" /\ pc'[t] # pc[t]) =>
                /\ target'[channel[t]] = Clamped(val[t])
                /\ \A c \in (0..5) \ {channel[t]} : target'[c] = target[c]]_vars
    /\ [][\A t \in Threads :
             (top[t] = "set_target" /\ pc'[t] # pc[t]) =>
                UNCHANGED <<cmd_buffer, completion, wire, xres, data_buffer>>]_vars
    /\ [](\A t \in Threads :
             (pc[t] = "return" /\ top[t] = "set_target") =>
                /\ ret[t] = -1
                /\ xres[t] = <<>>
                /\ mutex = {}
                /\ \E v \in requested[channel[t]] : target[channel[t]] = Clamped(v))
    /\ [](\A t \in Threads :
             (/\ pc[t] = "return" /\ top[t] = "fan_target"
              /\ requested[channel[t]] # {}) =>
                /\ ret[t] = 0
                /\ produced[t]
                /\ \E v \in requested[channel[t]] : val[t] = Clamped(v))

\* C16 witness: set_target(2, 70000) has failed with the mutex released and
\* 65535 stored for channel 2, channel 0 still unknown
C16_Witness ==
    /\ pc[SeqCaller] = "return"
    /\ top[SeqCaller] = "set_target"
    /\ channel[SeqCaller] = 2
    /\ requested[2] = {70000}
    /\ ret[SeqCaller] = -1
    /\ mutex = {}
    /\ target[2] = 65535
    /\ target[0] = -ENODATA

\* C17: a fan-target read returns NoData or the (clamped) value of a
\* set_target request on that channel, never a value that was not requested
\* through set_target.
C17_TargetReadReturnsRequested ==
    \A t \in Callers :
        (pc[t] = "return" /\ top[t] = "fan_target") =>
            \/ ret[t] = -ENODATA /\ ~produced[t]
            \/ ret[t] = 0 /\ \E v \in ConcTarget : val[t] = Clamped(v)

\* the sensor types, attributes and channels of ccxt_info
SensorTypes == {"temp", "fan", "pwm", "in"}
SensorAttrs == {"input", "label", "target"}

\* the Channel Set that holds the connected channels of a sensor type; the
\* device keeps none for the voltage inputs
ChannelSet(type) ==
    CASE type = "temp" -> temp_cnct
      [] type \in {"fan", "pwm"} -> fan_cnct
      [] OTHER -> {}

\* C18 as stated: for every sensor type, attribute and channel,
\* ccxt_is_visible gives a non-zero mode only if the channel is marked
\* connected in the Channel Set of the type.
C18_VisibleOnlyIfConnected ==
    stage = "online" =>
        \A type \in SensorTypes, attr \in SensorAttrs, c \in 0..5 :
            ccxt_is_visible(type, attr, c) # 0 => c \in ChannelSet(type)

\* C18 amended: for the temperature, fan and pwm entries ccxt_is_visible
\* gives a non-zero mode only if the channel is marked connected in
\* temp_cnct (temperature) or fan_cnct (fan, pwm); the voltage input entries
\* have no Channel Set and are visible (0444) for every channel.
C18_VisibleOnlyIfConnectedExceptVoltage ==
    stage = "online" =>
        /\ \A type \in {"temp", "fan", "pwm"}, attr \in SensorAttrs, c \in 0..5 :
              ccxt_is_visible(type, attr, c) # 0 => c \in ChannelSet(type)
        /\ \A c \in 0..5 : ccxt_is_visible("in", "input", c) = 292

\* C18 witness: with fans 0 and 2 connected the hwmon core reads the pwm of
\* channel 2, the entries of channel 1 are hidden, a voltage input is shown
C18_Witness ==
    /\ stage = "online"
    /\ fan_cnct = {0, 2}
    /\ temp_cnct = {}
    /\ top[SeqCaller] = "get_fan_pwm"
    /\ channel[SeqCaller] = 2
    /\ ccxt_is_visible("pwm", "input", 2) = 420
    /\ ccxt_is_visible("fan", "target", 0) = 420
    /\ ccxt_is_visible("fan", "input", 1) = 0
    /\ ccxt_is_visible("pwm", "input", 1) = 0
    /\ ccxt_is_visible("temp", "input", 0) = 0
    /\ ccxt_is_visible("in", "input", 1) = 292

\* the frames of a read transaction on endpoint e
ReadFrames(e) ==
    { FrameOf(<<0, 8, 5, 1, 1, e>>), FrameOf(<<0, 8, 13, 1, e>>),
      FrameOf(<<0, 8, 8, 1, e>>) }

\* C19: attach runs set_software_mode first and the fan inventory second and
\* brings the device online only after both returned success; a failure of
\* one of the two ends attach with that error and the device never comes
\* online; the results of get_temp_cnct, get_fw_version and get_bl_version
\* never end attach.
C19_AttachOrder ==
    /\ [][(stage = "probe" /\ top'[Core] # top[Core]) =>
             LET was == top[Core]
                 now == top'[Core]
                 r == ret[Core]
             IN  /\ now \in {"set_software_mode", "get_fan_cnct", "get_temp_cnct",
                             "get_fw_version", "ccxt_probe"}
                 /\ now = "set_software_mode" => was = "none"
                 /\ now = "get_fan_cnct" => (was = "set_software_mode" /\ r = 0)
                 /\ now = "get_temp_cnct" => (was = "get_fan_cnct" /\ r = 0)
                 /\ now = "get_fw_version" => was = "get_temp_cnct"
                 /\ now # "ccxt_probe" => stage' = "probe"
                 /\ now = "ccxt_probe" =>
                       \/ /\ stage' = "online"
                          /\ was = "get_fw_version"
                          /\ ret'[Core] = 0
                       \/ /\ stage' = "failed"
                          /\ was \in {"set_software_mode", "get_fan_cnct"}
                          /\ r # 0
                          /\ ret'[Core] = r
                       \/ /\ stage' = "failed"
                          /\ was = "get_fw_version"
                          /\ ret'[Core] \in RegisterErrors]_vars
    /\ [][(stage = "probe" /\ wire' # wire /\ wire' # NoFrame) =>
             /\ wire'.t = Core
             /\ top[Core] # "none"
             /\ top[Core] = "set_software_mode" =>
                    wire'.frame = FrameOf(<<0, 8, 1, 3, 0, 2>>)
             /\ top[Core] = "get_fan_cnct" => wire'.frame \in ReadFrames(26)]_vars
    /\ [][stage = "failed" => stage' = "failed"]_vars
    /\ [](stage = "failed" => ret[Core] # 0)

\* C19 witness: the firmware-version query timed out and attach succeeded
C19_Witness ==
    /\ stage = "online"
    /\ top[Core] = "ccxt_probe"
    /\ pc[Core] = "idle"
    /\ ret[Core] = 0
    /\ xres[Core] = <<-ETIMEDOUT>>

\* the command templates and the endpoints of the driver
Templates ==
    {cmd_get_firmware, cmd_hardware_mode, cmd_software_mode, cmd_open_endpoint,
     cmd_close_endpoint, cmd_write, cmd_read}
Endpoints ==
    {endpoint_fan_state, endpoint_fan_pwm, endpoint_get_fans, endpoint_get_temperatures}

\* the frame thread t has encoded for exchange xstep[t] of fn[t]
EncodedFrame(t) ==
    LET e == endpoint[t]
    IN  CASE fn[t] = "set_software_mode" -> FrameOf(<<0, 8, 1, 3, 0, 2>>)
          [] fn[t] = "set_hardware_mode" -> FrameOf(<<0, 8, 1, 3, 0, 1>>)
          [] fn[t] = "get_fw_version" -> FrameOf(<<0, 8, 2, 19>>)
          [] fn[t] \in {"read_data", "write_data"} /\ xstep[t] \in {1, 4} ->
                FrameOf(<<0, 8, 5, 1, 1, e>>)
          [] fn[t] \in {"read_data", "write_data"} /\ xstep[t] = 2 ->
                FrameOf(<<0, 8, 13, 1, e>>)
          [] fn[t] = "read_data" /\ xstep[t] = 3 -> FrameOf(<<0, 8, 8, 1, e>>)
          [] fn[t] = "write_data" /\ xstep[t] = 3 ->
                FrameOf(<<0, 8, 6, 1, 7, 0, 0, 0, 7, 0, 1, channel[t], 0, val[t], 0>>)

\* C20: whatever the command buffer holds, prepare_cmd leaves bytes 0x00,
\* 0x08, the template and zeros in it and returns 2 + len, and
\* prepare_endpoint_cmd adds the endpoint byte at 2 + len and returns
\* 3 + len; the frame is handed over with its full size of 385 bytes; every
\* frame handed to the transport was encoded for its exchange after the
\* previous send.
C20_FrameEncoding ==
    /\ [](\A command \in Templates :
             /\ prepare_cmd(cmd_buffer, command).cmd_buffer = FrameOf(<<0, 8>> \o command)
             /\ prepare_cmd(cmd_buffer, command).ret = 2 + Len(command)
             /\ \A ep \in Endpoints :
                   /\ prepare_endpoint_cmd(cmd_buffer, command, ep).cmd_buffer
                         = FrameOf(<<0, 8>> \o command \o <<ep>>)
                   /\ prepare_endpoint_cmd(cmd_buffer, command, ep).ret = 3 + Len(command))
    /\ [](\A t \in Threads :
             pc[t] \in {"reinit", "send"} => cmd_buffer = EncodedFrame(t))
    /\ [][\A t \in Threads :
             /\ (pc'[t] = "send" /\ pc[t] # "send") => pc[t] = "reinit"
             /\ (pc'[t] = "reinit" /\ pc[t] # "reinit") => pc[t] = "encode"
             /\ (pc[t] = "send" /\ pc'[t] = "wait") =>
                    (wire'.frame = EncodedFrame(t) /\ OUT_BUFFER_SIZE = 385)]_vars

\* C20 witness: the trailing close frame of a write transaction is in the
\* command buffer, which held the longer write frame before
C20_Witness ==
    /\ pc[SeqCaller] = "send"
    /\ fn[SeqCaller] = "write_data"
    /\ xstep[SeqCaller] = 4
    /\ wire.xstep = 3
    /\ wire.frame[13] = 50
    /\ cmd_buffer = FrameOf(<<0, 8, 5, 1, 1, 24>>)

\* C21: the third frame of the write transaction of set_pwm(c, v), v in
\* 0..255, is 0x00 0x08 0x06 0x01, the length byte 7 and three zero bytes,
\* the type tag 0x07 0x00, the payload 1, c, 0, round-to-nearest(v * 100 /
\* 255), 0, and zeros; it carries no endpoint byte.
C21_PwmWriteFrame ==
    /\ [][\A t \in Threads :
             (/\ pc[t] = "entry" /\ top[t] = "set_pwm" /\ pc'[t] = "lock") =>
                /\ val[t] \in 0..255
                /\ 2 * (255 * val'[t] - 100 * val[t]) \in -255..255
                /\ channel'[t] = channel[t]]_vars
    /\ [][\A t \in Threads :
             (top[t] = "set_pwm" /\ pc[t] \in {"lock", "encode", "reinit", "send", "wait",
                                              "inspect", "check"}) =>
                (val'[t] = val[t] /\ channel'[t] = channel[t])]_vars
    /\ [][\A t \in Threads :
             (/\ top[t] = "set_pwm" /\ xstep[t] = 3
              /\ pc[t] = "send" /\ pc'[t] # pc[t]) =>
                LET f == wire'.frame
                IN  /\ f[0] = 0 /\ f[1] = 8 /\ f[2] = 6 /\ f[3] = 1
                    /\ f[4] = 7 /\ f[5] = 0 /\ f[6] = 0 /\ f[7] = 0
                    /\ f[8] = 7 /\ f[9] = 0
                    /\ f[10] = 1 /\ f[11] = channel[t] /\ f[12] = 0
                    /\ f[13] = val[t] /\ f[14] = 0
                    /\ \A i \in 15..(CmdView - 1) : f[i] = 0]_vars

\* C21 witness: the write frame of set_pwm(3, 200) is on the wire with
\* channel 3 and the device-scale value 78
C21_Witness ==
    /\ top[SeqCaller] = "set_pwm"
    /\ pc[SeqCaller] = "wait"
    /\ channel[SeqCaller] = 3
    /\ wire.xstep = 3
    /\ wire.frame[4] = 7
    /\ wire.frame[11] = 3
    /\ wire.frame[13] = 78

\* C22: when hid_hw_output_report fails, send_usb returns its error code at
\* once: the exchange goes from the send straight to its result, which is
\* the transport's negative code, without a wait and without regard to the
\* completion, the Incoming Frame or its length, which the step leaves alone.
SendErrors == { e \in SendResults : e < 0 }

C22_SendFailureReturned ==
    /\ [][\A t \in Threads :
             (pc[t] = "send" /\ pc'[t] # "send") =>
                IF wire'.sent < 0
                THEN /\ pc'[t] = "check"
                     /\ ret'[t] = wire'.sent
                     /\ xres'[t] = Append(xres[t], wire'.sent)
                     /\ UNCHANGED <<completion, buffer, buffer_recv_size>>
                ELSE /\ pc'[t] = "wait"
                     /\ UNCHANGED <<ret, xres>>]_vars
    /\ [][\A t \in Threads :
             (pc'[t] = "check" /\ pc[t] # "check" /\ ret'[t] \in SendErrors) =>
                pc[t] = "send"]_vars
    /\ [][\A t \in Threads :
             (pc[t] = "check" /\ ret[t] \in SendErrors /\ pc'[t] # "check") =>
                pc'[t] = "unlock"]_vars

\* C22 witness: the send failed and send_usb returned the transport's code
\* although a complete report with status 0 had been captured for the wait
C22_Witness ==
    /\ pc[Core] = "check"
    /\ wire.sent \in SendErrors
    /\ ret[Core] = wire.sent
    /\ Last(xres[Core]) = ret[Core]
    /\ completion
    /\ buffer_recv_size = IN_BUFFER_SIZE
    /\ buffer[2] = 0

\* C23: from the capture that completes an exchange up to the next
\* reinit_completion, ccxt_raw_event changes neither the Incoming Frame nor
\* its length: the Incoming Frame changes only in a capturing step, which
\* takes the length and the bytes of one report, and every report delivered
\* while the completion is done is dropped; the frame read_data copies is
\* a complete report.
C23_OneCapturePerReset ==
    /\ [][(completion /\ completion') =>
             UNCHANGED <<buffer, buffer_recv_size>>]_vars
    /\ [][(buffer' # buffer \/ buffer_recv_size' # buffer_recv_size) =>
             (~completion /\ completion')]_vars
    /\ [][(~completion /\ completion') =>
             \E r \in SeqReports :
                /\ buffer_recv_size' = r.size
                /\ \A i \in 0..(min(IN_BUFFER_SIZE, r.size) - 1) :
                      i < BufView => buffer'[i] = r.data[i]
                /\ UNCHANGED thrVars]_vars
    /\ [][\A t \in Threads :
             (data_buffer' # data_buffer /\ pc[t] = "check" /\ pc'[t] # "check") =>
                /\ completion
                /\ buffer_recv_size = IN_BUFFER_SIZE
                /\ \E r \in SeqReports : buffer = r.data
                /\ data_buffer' = buffer]_vars

\* C23 witness: the reply of the read exchange was captured and copied, the
\* completion is still done, so further reports are dropped until the
\* trailing close resets it
C23_Witness ==
    /\ fn[SeqCaller] = "read_data"
    /\ xstep[SeqCaller] = 4
    /\ pc[SeqCaller] = "reinit"
    /\ completion
    /\ buffer_recv_size = IN_BUFFER_SIZE
    /\ data_buffer = buffer
    /\ \E r \in SeqReports : r.size = IN_BUFFER_SIZE /\ buffer = r.data /\ r.data[5] > 0

\* C24: reinit_completion leaves the completion not done, only a report
\* captured by ccxt_raw_event afterwards sets it, and the wait passes only
\* when it is set: a completion left by a report captured before the reset
\* of an exchange does not satisfy the wait of that exchange.
C24_StaleCompletionCleared ==
    /\ [][\A t \in Threads :
             (pc[t] = "reinit" /\ pc'[t] # "reinit") =>
                (pc'[t] = "send" /\ ~completion')]_vars
    /\ [][(~completion /\ completion') =>
             /\ UNCHANGED thrVars
             /\ \E r \in StatusReports : buffer_recv_size' = r.size]_vars
    /\ [][\A t \in Threads :
             (pc[t] = "wait" /\ pc'[t] # "wait") =>
                IF completion
                THEN pc'[t] = "inspect"
                ELSE pc'[t] = "check" /\ ret'[t] = -ETIMEDOUT]_vars
    /\ [][(completion /\ ~completion') =>
             \E t \in Threads : pc[t] = "reinit" /\ pc'[t] = "send"]_vars

\* C24 witness: a complete report with status 0 captured earlier is in the
\* Incoming Frame, the exchange reset the completion, sent its frame, got no
\* report and timed out
C24_Witness ==
    /\ pc[Core] = "check"
    /\ wire.sent >= 0
    /\ Last(xres[Core]) = -ETIMEDOUT
    /\ ~completion
    /\ buffer_recv_size = IN_BUFFER_SIZE
    /\ buffer[2] = 0

\* C25: when read_data returns 0, the Data Buffer and its length are the
\* Incoming Frame and length captured for the read exchange (the third):
\* the frame captured for the third exchange stays as it is until it is
\* copied, the copy takes it whole with its length, and the trailing close,
\* which overwrites the Incoming Frame, leaves the Data Buffer alone until
\* the mutex is released.
InReadData(t, k) == fn[t] = "read_data" /\ t \in mutex /\ xstep[t] = k

C25_DataBufferIsReadReply ==
    /\ [][\A t \in Threads :
             (InReadData(t, 3) /\ completion /\ pc[t] \in {"wait", "inspect", "check"}) =>
                UNCHANGED <<buffer, buffer_recv_size>>]_vars
    /\ [][\A t \in Threads :
             (InReadData(t, 3) /\ pc[t] = "check" /\ pc'[t] # "check" /\ ret[t] = 0) =>
                /\ xstep'[t] = 4
                /\ data_buffer' = buffer
                /\ data_buffer_recv_size' = buffer_recv_size
                /\ buffer_recv_size = IN_BUFFER_SIZE]_vars
    /\ [][\A t \in Threads :
             InReadData(t, 4) => UNCHANGED <<data_buffer, data_buffer_recv_size>>]_vars
    /\ [][\A t \in Threads :
             (fn[t] = "read_data" /\ pc[t] = "unlock" /\ pc'[t] # "unlock" /\ ret[t] = 0) =>
                /\ xres[t] = <<0, 0, 0, 0>>
                /\ xstep[t] = 4
                /\ dataOwner = t
                /\ data_buffer_recv_size = IN_BUFFER_SIZE]_vars

\* C25 witness: read_data is about to return 0, the trailing close has put
\* another report into the Incoming Frame, and the Data Buffer still holds
\* the reply of the read exchange
C25_Witness ==
    /\ fn[SeqCaller] = "read_data"
    /\ pc[SeqCaller] = "unlock"
    /\ xres[SeqCaller] = <<0, 0, 0, 0>>
    /\ dataOwner = SeqCaller
    /\ data_buffer # buffer
    /\ data_buffer[5] = 6
    /\ buffer[5] = 2

\* C26: every operation that takes the mutex releases it before it returns,
\* on every exit path, and never between the exchanges of one transaction:
\* a thread outside a locking function does not hold the mutex, a thread
\* inside one holds it alone, the mutex is released only at out_unlock, which
\* is reached from a failed exchange or from the last one, and a thread
\* leaves mutex_lock only as the holder.  Under fair scheduling every
\* operation of a caller terminates, which takes it through the blocked
\* mutex_lock and the release, and so do device attach and detach.
LastExchange(f) == IF f \in {"read_data", "write_data"} THEN 4 ELSE 1

C26_MutexReleasedOnEveryPath ==
    /\ [](\A t \in Threads :
             pc[t] \in {"idle", "entry", "lock", "decode", "return"} => t \notin mutex)
    /\ [](\A t \in Threads : InExchange(t) => mutex = {t})
    /\ [][\A t \in Threads :
             (t \in mutex /\ t \notin mutex') =>
                (pc[t] = "unlock" /\ pc'[t] \in {"decode", "return"})]_vars
    /\ [][\A t \in Threads :
             (pc'[t] = "unlock" /\ pc[t] # "unlock") =>
                /\ pc[t] = "check"
                /\ ret[t] # 0 \/ xstep[t] = LastExchange(fn[t])]_vars
    /\ [][\A t \in Threads :
             (pc[t] = "lock" /\ pc'[t] # "lock") => (pc'[t] = "encode" /\ t \in mutex')]_vars
    /\ \A t \in Callers : (pc[t] # "idle") ~> (pc[t] = "idle")
    /\ (stage \in {"probe", "remove"}) ~> (stage \in {"online", "failed", "removed"})

\* C26 witness: a caller is blocked on the mutex while the holder's exchange
\* has timed out and the holder has not yet reached out_unlock
C26_Witness ==
    \E t \in Callers, u \in Callers :
        /\ pc[t] = "lock"
        /\ pc[u] = "check"
        /\ ret[u] = -ETIMEDOUT
        /\ xstep[u] = 2
        /\ mutex = {u}

\* C27: get_temp_cnct returns a failure for every device response, the
\* error of read_data when it fails and -1 when all four exchanges succeed,
\* and never sets a bit of temp_cnct: temp_cnct is empty in every reachable
\* state and no temperature attribute of any channel is visible.
C27_NoTemperatureChannel ==
    /\ [][\A t \in Threads :
             (top[t] = "get_temp_cnct" /\ pc[t] = "decode" /\ pc'[t] # "decode") =>
                /\ ret'[t] = (IF ret[t] # 0 THEN ret[t] ELSE -1)
                /\ ret'[t] # 0
                /\ temp_cnct' = temp_cnct]_vars
    /\ [](temp_cnct = {})
    /\ [](\A attr \in SensorAttrs, c \in Channels : ccxt_is_visible("temp", attr, c) = 0)

\* C27 witness: the four exchanges of the read transaction of get_temp_cnct
\* succeeded, the reply lists sensors with a non-zero state, and get_temp_cnct
\* returned -1 without marking any
C27_Witness ==
    /\ top[Core] = "get_temp_cnct"
    /\ pc[Core] = "return"
    /\ xres[Core] = <<0, 0, 0, 0>>
    /\ ret[Core] = -1
    /\ data_buffer[TEMP_CNT_INDEX] > 0
    /\ data_buffer[TEMP_DATA_OFFSET] # 0
    /\ temp_cnct = {}

\* C28: the hardware-mode command is sent only by ccxt_remove, after
\* hwmon_device_unregister: a frame carrying cmd_hardware_mode goes on the
\* wire only during detach, from the detaching thread, while no hwmon caller
\* is inside an operation; a failing attach sends nothing after its last
\* exchange, so no hardware-mode frame follows a successful software-mode
\* exchange, and no hwmon operation starts or runs once detach has begun.
IsHardwareMode(w) ==
    /\ w # NoFrame
    /\ \A i \in 1..Len(cmd_hardware_mode) : w.frame[i + 1] = cmd_hardware_mode[i]

C28_HardwareModeOnlyAtDetach ==
    /\ [][(wire' # wire /\ IsHardwareMode(wire')) =>
             /\ stage = "remove"
             /\ wire'.t = Core
             /\ top[Core] = "set_hardware_mode"
             /\ \A t \in Callers : pc[t] = "idle"]_vars
    /\ [][(stage' = "failed" /\ stage # "failed") =>
             /\ stage = "probe"
             /\ ret'[Core] # 0
             /\ ~IsHardwareMode(wire)
             /\ UNCHANGED <<wire, cmd_buffer>>]_vars
    /\ [][stage = "failed" => UNCHANGED <<stage, wire, cmd_buffer>>]_vars
    /\ [](stage \in {"remove", "removed"} => \A t \in Callers : pc[t] = "idle")
    /\ [][(stage \in {"remove", "removed"}) => (stage' \in {"remove", "removed"})]_vars

\* C28 witness: detach has sent the hardware-mode frame, after fans had been
\* found and the sensor surface had been published and torn down
C28_Witness ==
    /\ stage = "remove"
    /\ pc[Core] = "wait"
    /\ IsHardwareMode(wire)
    /\ wire.sent = OUT_BUFFER_SIZE
    /\ fan_cnct # {}
    /\ \A t \in Callers : pc[t] = "idle"

=============================================================================
